---- MODULE Spec2Model ----
(***************************************************************************)
(* A model of the definition-driven parsing core of stealer-parser:        *)
(*   - parsing/matcher.py      score_definition                            *)
(*   - parsing/definitions.py  RecordDefinition (compiled, capabilities)   *)
(*   - parsing/factory.py      StrategyRegistry, ParserFactory             *)
(*   - parsing/registry.py     ParserRegistry (get_parser, find_best_for)  *)
(*   - parsing/parsers/*.py    CookieParser, PasswordParser, SystemParser, *)
(*                             ConfigurableParser                          *)
(*   - parsing/strategies/defaults.py  the built-in strategies             *)
(*                             (with json.loads and the vault patterns)    *)
(*   - parsing/definition_store.py     RecordDefinition.model_validate     *)
(*   - services/leak_processor.py      LeakProcessor.process_leak          *)
(*   - database/postgres.py    truncate_string, PostgreSQLExporter         *)
(*   - database/dao/base.py    BaseDAO._execute_query, _execute_values     *)
(*   - cli/credential_cookie_cli.py    _write_netscape_cookie_jar          *)
(*   - api/async_processor.py  BackgroundWorker, process_archive_async     *)
(*                                                                         *)
(* Conventions.                                                            *)
(*   Paths and lines are strings; a text is the list of its lines, as      *)
(*   str.splitlines() returns it.  str.split, str.strip, str.startswith,   *)
(*   'x in s' and re.split are computed character by character.            *)
(*   A definition's regular expression or glob is kept as its source text; *)
(*   re.search and fnmatch are defined for the patterns and globs the      *)
(*   definitions of the model use, each by what it matches in any string.  *)
(*   Weights are integers counting halves (2.0 is 4, 0.5 is 1); a score    *)
(*   is the pair [num, den] that stands for (num / 2) / den.               *)
(***************************************************************************)
EXTENDS Integers, Sequences, FiniteSets, TLC

\* ------------------------------------------------------------------------
\* Bounds of the model
\* ------------------------------------------------------------------------
MaxRun == 3

MaxRegistered == 5

LongFile == 1000

\* ------------------------------------------------------------------------
\* Generic helpers
\* ------------------------------------------------------------------------
Max(a, b) == IF a >= b THEN a ELSE b

Min(a, b) == IF a <= b THEN a ELSE b

Range(s) == {s[i] : i \in DOMAIN s}

Replicate(x, n) == [i \in 1..n |-> x]

\* s[i] of a Python string, 1-based
Char(s, i) == SubSeq(s, i, i)

\* s.startswith(p), s.endswith(p)
StartsWith(s, p) == Len(s) >= Len(p) /\ SubSeq(s, 1, Len(p)) = p

EndsWith(s, p) == Len(s) >= Len(p) /\ SubSeq(s, Len(s) - Len(p) + 1, Len(s)) = p

\* sub in s
Contains(s, sub) ==
    \E i \in 1..(Len(s) - Len(sub) + 1) : SubSeq(s, i, i + Len(sub) - 1) = sub

\* c.lower() for one character
UpperCase ==
    <<"A", "B", "C", "D", "E", "F", "G", "H", "I", "J", "K", "L", "M",
      "N", "O", "P", "Q", "R", "S", "T", "U", "V", "W", "X", "Y", "Z">>

LowerCase ==
    <<"a", "b", "c", "d", "e", "f", "g", "h", "i", "j", "k", "l", "m",
      "n", "o", "p", "q", "r", "s", "t", "u", "v", "w", "x", "y", "z">>

ToLower == [c \in Range(UpperCase) |->
                LowerCase[CHOOSE i \in DOMAIN UpperCase : UpperCase[i] = c]]

LowerChar(c) == IF c \in DOMAIN ToLower THEN ToLower[c] ELSE c

\* s.lower(), for the characters lo..hi of s by halves
RECURSIVE LowerFrom(_, _, _)
LowerFrom(s, lo, hi) ==
    IF lo > hi THEN ""
    ELSE IF lo = hi THEN LowerChar(Char(s, lo))
    ELSE LowerFrom(s, lo, (lo + hi) \div 2) \o LowerFrom(s, (lo + hi) \div 2 + 1, hi)

Lower(s) == LowerFrom(s, 1, Len(s))

\* re.compile("(?i)" + word).search(s) for a literal lower-case word,
\* which is also: word in s.lower()
ContainsIgnoreCase(s, word) == Contains(Lower(s), word)

\* s.split(sep) for a one-character separator
RECURSIVE Split(_, _)
Split(s, sep) ==
    LET at == {i \in 1..Len(s) : Char(s, i) = sep}
    IN IF at = {} THEN <<s>>
       ELSE LET first == CHOOSE i \in at : \A j \in at : i <= j
            IN <<SubSeq(s, 1, first - 1)>> \o Split(SubSeq(s, first + 1, Len(s)), sep)

\* ------------------------------------------------------------------------
\* The lines, regular expressions, paths and globs of the model
\* ------------------------------------------------------------------------
LineUser == "Username: alice"
LinePass == "Password: secret"
LineDash == "--"
LineEmpty == ""
LineJunk == "nothing to see here"
LineKV == "user=x"

\* re.compile(pat, re.I) and re.compile(re.escape(a), re.I): a compiled
\* pattern keeps how it was compiled and the text it was compiled from
ReCompile(pat) == [re |-> "regex", src |-> pat]

ReCompileEscaped(a) == [re |-> "escaped", src |-> a]

\* the first index >= i of s that holds no blank or tab, Len(s) + 1 if none
SkipSpace(s, i) ==
    LET rest == {j \in i..Len(s) : Char(s, j) \notin {" ", "\t"}}
    IN IF rest = {} THEN Len(s) + 1 ELSE CHOOSE j \in rest : \A k \in rest : j <= k

\* s.strip() and s.lstrip() for blanks and tabs
LStrip(s) == SubSeq(s, SkipSpace(s, 1), Len(s))

RStrip(s) ==
    LET ends == {n \in 0..Len(s) : \A i \in (n + 1)..Len(s) : Char(s, i) \in {" ", "\t"}}
    IN SubSeq(s, 1, CHOOSE n \in ends : \A m \in ends : n <= m)

Strip(s) == LStrip(RStrip(s))

\* None, where a string is expected
None == "<None>"

\* (?i)^word\s*[:=] searched in ln, word in lower case
HeaderSearch(word, ln) ==
    /\ Len(ln) > Len(word)
    /\ Lower(SubSeq(ln, 1, Len(word))) = word
    /\ LET at == SkipSpace(ln, Len(word) + 1)
       IN at <= Len(ln) /\ Char(ln, at) \in {":", "="}

\* ^-{2,}\s*$ searched in ln
DashesSearch(ln) ==
    LET dashes == {n \in 0..Len(ln) : \A i \in 1..n : Char(ln, i) = "-"}
        n == CHOOSE m \in dashes : \A k \in dashes : k <= m
    IN n >= 2 /\ SkipSpace(ln, n + 1) = Len(ln) + 1

\* pattern.search(ln) for the patterns of the model: a pattern written in a
\* definition, compiled with re.I, or an escaped alias, compiled with re.I
Search(pat, ln) ==
    IF pat.re = "regex"
    THEN CASE pat.src = "^-{2,}\\s*$" -> DashesSearch(ln)
           [] pat.src = "^$" -> ln = ""
           [] pat.src = "^-----$" -> ln = "-----"
           [] pat.src = "(?i)^username\\s*[:=]" -> HeaderSearch("username", ln)
           [] pat.src = "(?i)^password\\s*[:=]" -> HeaderSearch("password", ln)
           [] pat.src = "^user:$" -> Lower(ln) = "user:"
           [] pat.src = "(?i)^domain\\s*[:=]" -> HeaderSearch("domain", ln)
           [] pat.src = "(?i)^name\\s*[:=]" -> HeaderSearch("name", ln)
           [] pat.src = "(?i)^value\\s*[:=]" -> HeaderSearch("value", ln)
           [] pat.src = "(?i)^(username|user|login)\\s*[:=]" ->
                \E word \in {"username", "user", "login"} : HeaderSearch(word, ln)
           [] pat.src = "(?i)^(password|pass|pwd)\\s*[:=]" ->
                \E word \in {"password", "pass", "pwd"} : HeaderSearch(word, ln)
           [] OTHER -> FALSE
    ELSE ContainsIgnoreCase(ln, Lower(pat.src))

PathPasswordsUpper == "VICTIM1/Passwords.txt"
PathPasswords == "VICTIM1/passwords.txt"
PathCookies == "VICTIM1/Cookies/Chrome_Default.txt"
PathSysInfo == "VICTIM2/UserInformation.txt"
PathWallet == "VICTIM1/Wallets/Chrome Default/000003.log"
PathReadme == "readme.txt"
PathRootPasswords == "passwords.txt"
PathNotes == "VICTIM2/notes.txt"
PathDirMarker == "VICTIM2/"
PathCookiePasswords == "VICTIM2/cookie_passwords.txt"

\* sep.join(parts)
RECURSIVE Join(_, _)
Join(parts, sep) ==
    IF parts = <<>> THEN ""
    ELSE IF Len(parts) = 1 THEN parts[1]
    ELSE parts[1] \o sep \o Join(Tail(parts), sep)

\* pathlib.Path(p), kept as the string str() gives back: empty and "."
\* segments are dropped, so is a trailing "/"; the root is kept
Path(p) ==
    LET IsSegment(x) == x # "" /\ x # "."
        root == IF StartsWith(p, "//") /\ ~StartsWith(p, "///") THEN "//"
                ELSE IF StartsWith(p, "/") THEN "/" ELSE ""
        body == Join(SelectSeq(Split(p, "/"), IsSegment), "/")
    IN IF root = "" /\ body = "" THEN "." ELSE root \o body

\* fnmatch.fnmatch(str(path), pat) for the globs of the model; "*" of
\* fnmatch matches any characters, "/" included, and the match is
\* case-sensitive on POSIX
GlobDirStar(path, stem, suffix) ==
    \E i \in 1..Len(path) :
        /\ i + Len(stem) + Len(suffix) <= Len(path)
        /\ SubSeq(path, i, i + Len(stem)) = "/" \o stem
        /\ EndsWith(path, suffix)

fnmatch(path, pat) ==
    CASE pat = "**/passwords*.txt" -> GlobDirStar(path, "passwords", ".txt")
      [] pat = "**/unlikely*.txt" -> GlobDirStar(path, "unlikely", ".txt")
      [] pat = "*Cookies*" -> Contains(path, "Cookies")
      [] pat = "*.log" -> EndsWith(path, ".log")
      [] pat = "*" -> TRUE
      [] OTHER -> FALSE

\* ------------------------------------------------------------------------
\* parsing/definitions.py
\* ------------------------------------------------------------------------
\* FieldDef(name, aliases, header_patterns, group); group "" stands for None
FieldDef(name, aliases, header_patterns, group) ==
    [name |-> name, aliases |-> aliases,
     header_patterns |-> header_patterns, group |-> group]

\* RecordDefinition.score_weights default_factory
DefaultScoreWeights ==
    [k \in {"header", "separator", "alias", "path"} |->
        CASE k = "header" -> 4
          [] k = "separator" -> 2
          [] k = "alias" -> 1
          [] k = "path" -> 2]

RecordDefinition(key, file_globs, record_separators, multiline, groups, fields, score_weights) ==
    [key |-> key, file_globs |-> file_globs,
     record_separators |-> record_separators, multiline |-> multiline,
     groups |-> groups, fields |-> fields, score_weights |-> score_weights]

\* [re.compile(pat, re.I) for f in self.fields for pat in f.header_patterns]
RECURSIVE CompileHeaders(_)
CompileHeaders(fields) ==
    IF fields = <<>> THEN <<>>
    ELSE [i \in DOMAIN Head(fields).header_patterns |->
            ReCompile(Head(fields).header_patterns[i])]
         \o CompileHeaders(Tail(fields))

\* [re.compile(re.escape(a), re.I) for f in self.fields for a in f.aliases]
RECURSIVE CompileAliases(_)
CompileAliases(fields) ==
    IF fields = <<>> THEN <<>>
    ELSE [i \in DOMAIN Head(fields).aliases |->
            ReCompileEscaped(Head(fields).aliases[i])]
         \o CompileAliases(Tail(fields))

\* RecordDefinition.compiled
compiled(d) ==
    [headers |-> CompileHeaders(d.fields),
     separators |-> [i \in DOMAIN d.record_separators |->
                        ReCompile(d.record_separators[i])],
     aliases |-> CompileAliases(d.fields)]

\* ------------------------------------------------------------------------
\* parsing/matcher.py
\* ------------------------------------------------------------------------
\* weights.get(k, default)
WeightGet(weights, k, default) ==
    IF k \in DOMAIN weights THEN weights[k] ELSE default

\* sum(1 for pat in pats if pat.search(ln))
RECURSIVE HitsInLine(_, _)
HitsInLine(ln, pats) ==
    IF pats = <<>> THEN 0
    ELSE (IF Search(Head(pats), ln) THEN 1 ELSE 0) + HitsInLine(ln, Tail(pats))

\* the sum below for the lines lo..hi, added up by halves (a sample has up
\* to 200 lines)
RECURSIVE HitsBetween(_, _, _, _)
HitsBetween(lines, lo, hi, pats) ==
    IF lo > hi THEN 0
    ELSE IF lo = hi THEN HitsInLine(lines[lo], pats)
    ELSE LET mid == (lo + hi) \div 2
         IN HitsBetween(lines, lo, mid, pats) + HitsBetween(lines, mid + 1, hi, pats)

\* sum(1 for ln in lines for pat in pats if pat.search(ln))
Hits(lines, pats) == HitsBetween(lines, 1, Len(lines), pats)

\* any(fnmatch.fnmatch(str(path), pat) for pat in definition.file_globs)
AnyGlob(path, file_globs) ==
    \E i \in DOMAIN file_globs : fnmatch(path, file_globs[i])

ScoreFloor == 10

\* score_definition with the denominator floor dropped: max(1, len(lines))
score_definition_no_floor(path, sample_lines, definition) ==
    LET weights == definition.score_weights
        c == compiled(definition)
        s0 == IF AnyGlob(path, definition.file_globs)
              THEN WeightGet(weights, "path", 2) ELSE 0
        s1 == s0 + Hits(sample_lines, c.separators) * WeightGet(weights, "separator", 2)
        s2 == s1 + Hits(sample_lines, c.headers) * WeightGet(weights, "header", 4)
        s3 == s2 + Hits(sample_lines, c.aliases) * WeightGet(weights, "alias", 1)
    IN [num |-> s3, den |-> Max(1, Len(sample_lines))]

score_definition(path, sample_lines, definition) ==
    LET weights == definition.score_weights
        c == compiled(definition)
        s0 == IF AnyGlob(path, definition.file_globs)
              THEN WeightGet(weights, "path", 2) ELSE 0
        sep_hits == Hits(sample_lines, c.separators)
        hdr_hits == Hits(sample_lines, c.headers)
        alias_hits == Hits(sample_lines, c.aliases)
        s1 == s0 + sep_hits * WeightGet(weights, "separator", 2)
        s2 == s1 + hdr_hits * WeightGet(weights, "header", 4)
        s3 == s2 + alias_hits * WeightGet(weights, "alias", 1)
        denom == Max(ScoreFloor, Len(sample_lines))
    IN [num |-> s3, den |-> denom]

\* a >= b for two scores (or a score and a threshold); denominators are > 0
ScoreGE(a, b) == a.num * b.den >= b.num * a.den

\* ------------------------------------------------------------------------
\* parsing/definitions.py: RecordDefinition.capabilities
\* ------------------------------------------------------------------------
capabilities(d) ==
    (IF d.record_separators # <<>> THEN {"regex-boundary"} ELSE {})
    \cup (IF \E i \in DOMAIN d.fields : d.fields[i].header_patterns # <<>>
          THEN {"kv-headers"} ELSE {})
    \cup (IF d.multiline THEN {"multiline"} ELSE {})
    \cup (IF DOMAIN d.groups # {} THEN {"grouping"} ELSE {})

\* ------------------------------------------------------------------------
\* parsing/strategies/defaults.py: the capabilities() of the built-ins
\* ------------------------------------------------------------------------
RegexSeparatorChunker ==
    [name |-> "RegexSeparatorChunker", caps |-> {"regex-boundary", "multiline"}]

KVHeaderExtractor == [name |-> "KVHeaderExtractor", caps |-> {"kv-headers"}]

AliasGroupingTransformer ==
    [name |-> "AliasGroupingTransformer", caps |-> {"grouping", "kv-headers"}]

LineChunker == [name |-> "LineChunker", caps |-> {"line-based"}]

DelimitedLineExtractor ==
    [name |-> "DelimitedLineExtractor", caps |-> {"line-based"}]

FullFileChunker ==
    [name |-> "FullFileChunker",
     caps |-> {"full-file", "vault", "regex-boundary", "multiline"}]

VaultExtractor == [name |-> "VaultExtractor", caps |-> {"vault", "full-file"}]

VaultTransformer == [name |-> "VaultTransformer", caps |-> {"vault", "full-file"}]

\* ------------------------------------------------------------------------
\* parsing/factory.py
\* ------------------------------------------------------------------------
Interfaces == {"Chunker", "Extractor", "Transformer"}

\* StrategyRegistry.__init__: no implementation of any interface
EmptyImpls == [iface \in Interfaces |-> <<>>]

\* StrategyRegistry.register: append (impl.capabilities(), impl)
register(impls, iface, impl) ==
    [impls EXCEPT ![iface] = Append(@, <<impl.caps, impl>>)]

\* the key of max(): len(requirements & c[0])
OverlapKey(requirements, c) == Cardinality(requirements \cap c[1])

\* max(candidates, key=...) when ties go to the LAST maximal candidate
RECURSIVE MaxByOverlapLast(_, _, _)
MaxByOverlapLast(best, rest, requirements) ==
    IF rest = <<>> THEN best
    ELSE MaxByOverlapLast(
            IF OverlapKey(requirements, Head(rest)) >= OverlapKey(requirements, best)
            THEN Head(rest) ELSE best,
            Tail(rest), requirements)

\* max(candidates, key=...): Python's max keeps the first maximal candidate,
\* a later one replaces it only with a strictly larger key
RECURSIVE MaxByOverlap(_, _, _)
MaxByOverlap(best, rest, requirements) ==
    IF rest = <<>> THEN best
    ELSE MaxByOverlap(
            IF OverlapKey(requirements, Head(rest)) > OverlapKey(requirements, best)
            THEN Head(rest) ELSE best,
            Tail(rest), requirements)

LookupError == [name |-> "LookupError", caps |-> {}]

\* StrategyRegistry.best_for with the tie going to the last candidate
best_for_last(impls, iface, requirements) ==
    LET candidates == impls[iface]
    IN IF candidates = <<>> THEN LookupError
       ELSE MaxByOverlapLast(Head(candidates), Tail(candidates), requirements)[2]

\* StrategyRegistry.best_for
best_for(impls, iface, requirements) ==
    LET candidates == impls[iface]
    IN IF candidates = <<>> THEN LookupError
       ELSE MaxByOverlap(Head(candidates), Tail(candidates), requirements)[2]

\* ParserFactory.build_parts: raises LookupError when an interface has no
\* implementation, else ParserParts(chunker, extractor, transformer)
build_parts(impls, definition) ==
    LET req == capabilities(definition)
        chunker == best_for(impls, "Chunker", req)
        extractor == best_for(impls, "Extractor", req)
        transformer == best_for(impls, "Transformer", req)
    IN IF LookupError \in {chunker, extractor, transformer}
       THEN [raised |-> "LookupError"]
       ELSE [raised |-> "", chunker |-> chunker, extractor |-> extractor,
             transformer |-> transformer]

\* ------------------------------------------------------------------------
\* parsing/parsers/*.py: the pattern of each legacy parser
\* ------------------------------------------------------------------------
\* CookieParser.pattern: (?i)cookie
CookiePattern(filename) == ContainsIgnoreCase(filename, "cookie")

\* PasswordParser.pattern: (?i)password
PasswordPattern(filename) == ContainsIgnoreCase(filename, "password")

\* SystemParser.pattern: (?i)(system|information|sysinfo|system_info|machine|pcinfo)
SystemPattern(filename) ==
    LET lowered == Lower(filename)
    IN \E word \in {"system", "information", "sysinfo", "system_info", "machine", "pcinfo"} :
        Contains(lowered, word)

\* parser.pattern.search(filename)
PatternSearch(parser, filename) ==
    CASE parser = "CookieParser" -> CookiePattern(filename)
      [] parser = "PasswordParser" -> PasswordPattern(filename)
      [] parser = "SystemParser" -> SystemPattern(filename)

\* ------------------------------------------------------------------------
\* parsing/registry.py
\* ------------------------------------------------------------------------
\* ParserRegistry._discover_parsers: pkgutil.iter_modules lists the modules of
\* parsing/parsers by name (configurable, cookie_parser, password_parser,
\* system_parser); ConfigurableParser is skipped
DiscoveredParsers == <<"CookieParser", "PasswordParser", "SystemParser">>

NoParser == [kind |-> "None"]

LegacyParser(name) == [kind |-> name]

\* ConfigurableParser(logger, definition, parts)
ConfigurableParser(definition, parts) ==
    [kind |-> "ConfigurableParser", definition |-> definition, parts |-> parts]

\* ParserRegistry.get_parser: the first discovered parser whose pattern matches
RECURSIVE FirstMatching(_, _)
FirstMatching(parsers, filename) ==
    IF parsers = <<>> THEN NoParser
    ELSE IF PatternSearch(Head(parsers), filename) THEN LegacyParser(Head(parsers))
    ELSE FirstMatching(Tail(parsers), filename)

get_parser(filename) == FirstMatching(DiscoveredParsers, filename)

\* the number of sampled lines find_best_for scores
SampleLineLimit == 200

\* sample_text.splitlines()[:200]
SampledLines(sample_lines) ==
    SubSeq(sample_lines, 1, Min(SampleLineLimit, Len(sample_lines)))

\* list.sort(key=score, reverse=True) is stable: an element goes after the
\* elements already placed whose score is >= its own
RECURSIVE InsertByScore(_, _)
InsertByScore(sorted, x) ==
    IF sorted = <<>> THEN <<x>>
    ELSE IF ScoreGE(Head(sorted)[2], x[2])
         THEN <<Head(sorted)>> \o InsertByScore(Tail(sorted), x)
         ELSE <<x>> \o sorted

RECURSIVE SortByScore(_)
SortByScore(scored) ==
    IF scored = <<>> THEN <<>>
    ELSE InsertByScore(SortByScore(SubSeq(scored, 1, Len(scored) - 1)),
                       scored[Len(scored)])

\* ParserRegistry._definition_store: None, or a store and the list its
\* load_all() returns
NoStore == [present |-> FALSE, defs |-> <<>>]

DefinitionStore(defs) == [present |-> TRUE, defs |-> defs]

\* ParserRegistry._parser_factory: None, or a factory over a StrategyRegistry
NoFactory == [present |-> FALSE, impls |-> EmptyImpls]

ParserFactory(impls) == [present |-> TRUE, impls |-> impls]

\* [(d, score_definition(path, lines, d)) for d in defs]
RECURSIVE ScoreAll(_, _, _)
ScoreAll(defs, path, lines) ==
    IF defs = <<>> THEN <<>>
    ELSE <<<<Head(defs), score_definition(path, lines, Head(defs))>>>>
         \o ScoreAll(Tail(defs), path, lines)

\* ConfigurableParser(logger, definition=best_def, parts=parts), unless
\* build_parts raised
BuiltParser(best_def, parts) ==
    IF parts.raised # "" THEN [kind |-> "raise"] ELSE ConfigurableParser(best_def, parts)

\* lines 67-73 behind a sort that leaves the last of the elements of equal
\* score in front
BestOf_last_of_ties(scored, factory, path, threshold) ==
    IF ScoreGE(scored[1][2], threshold)
    THEN ConfigurableParser(
            scored[CHOOSE k \in DOMAIN scored :
                        /\ ScoreGE(scored[k][2], scored[1][2])
                        /\ \A m \in DOMAIN scored :
                                ScoreGE(scored[m][2], scored[1][2]) => m <= k][1],
            build_parts(factory.impls, scored[1][1]))
    ELSE get_parser(path)

\* lines 67-73 of find_best_for, scored being the sorted list
BestOf(scored, factory, path, threshold) ==
    IF ScoreGE(scored[1][2], threshold)
    THEN BuiltParser(scored[1][1], build_parts(factory.impls, scored[1][1]))
    ELSE get_parser(path)

\* ParserRegistry.find_best_for(path, sample_text, threshold).
\* The result is a parser, NoParser, or [kind |-> "raise"] for the LookupError
\* of build_parts.
find_best_for(store, factory, path, sample_lines, threshold) ==
    IF ~(store.present /\ factory.present) THEN get_parser(path)
    ELSE IF store.defs = <<>> THEN get_parser(path)
    ELSE BestOf(SortByScore(ScoreAll(store.defs, path, SampledLines(sample_lines))),
                factory, path, threshold)

\* ------------------------------------------------------------------------
\* containers.py: AppContainer.strategies_initializer
\* ------------------------------------------------------------------------
ContainerImpls ==
    register(register(register(register(register(register(register(register(
        EmptyImpls,
        "Chunker", RegexSeparatorChunker),
        "Extractor", KVHeaderExtractor),
        "Transformer", AliasGroupingTransformer),
        "Chunker", LineChunker),
        "Extractor", DelimitedLineExtractor),
        "Chunker", FullFileChunker),
        "Extractor", VaultExtractor),
        "Transformer", VaultTransformer)

\* ------------------------------------------------------------------------
\* The seven-field cookie line: parsing/parsers/cookie_parser.py and
\* DelimitedLineExtractor of parsing/strategies/defaults.py
\* ------------------------------------------------------------------------
CookieFieldCount == 7

CookieMaxSplit == 6

\* \s of the lines of the model
IsSpace(c) == c \in {" ", "\t"}

\* the first index >= i of s that holds no whitespace, Len(s) + 1 if none
RunEnd(s, i) ==
    LET rest == {j \in i..Len(s) : ~IsSpace(Char(s, j))}
    IN IF rest = {} THEN Len(s) + 1 ELSE CHOOSE j \in rest : \A k \in rest : j <= k

\* re.split(r"\s+", s, maxsplit=maxsplit)
RECURSIVE ReSplitSpace(_, _)
ReSplitSpace(s, maxsplit) ==
    LET at == {i \in 1..Len(s) : IsSpace(Char(s, i))}
    IN IF maxsplit = 0 \/ at = {} THEN <<s>>
       ELSE LET first == CHOOSE i \in at : \A j \in at : i <= j
            IN <<SubSeq(s, 1, first - 1)>>
               \o ReSplitSpace(SubSeq(s, RunEnd(s, first), Len(s)), maxsplit - 1)

\* the tab-only variant: no whitespace fallback
CookieParts_tab_only(line) ==
    LET parts == Split(line, "\t")
    IN IF Len(parts) # CookieFieldCount THEN <<>> ELSE parts

\* parts = line.split("\t"); if len(parts) != 7: parts = re.split(r"\s+",
\* line, maxsplit=6); if len(parts) != 7: no cookie (<<>> here)
CookieParts(line) ==
    LET parts == Split(line, "\t")
    IN IF Len(parts) # CookieFieldCount
       THEN LET parts2 == ReSplitSpace(line, CookieMaxSplit)
            IN IF Len(parts2) # CookieFieldCount THEN <<>> ELSE parts2
       ELSE parts

\* "if not line or line.startswith('#'): continue" of CookieParser.parse and
\* LineChunker.chunk
IsSkippedLine(ln) == ln = "" \/ StartsWith(ln, "#")

\* Cookie(domain=parts[0], ..., value=parts[6], browser, profile, filepath)
Cookie(parts, browser, profile, filepath) ==
    [type |-> "cookie",
     domain |-> parts[1], domain_specified |-> parts[2], path |-> parts[3],
     secure |-> parts[4], expiry |-> parts[5], name |-> parts[6],
     value |-> parts[7], browser |-> browser, profile |-> profile,
     filepath |-> filepath]

\* CookieParser.parse(text, browser=, profile=, filename=)
RECURSIVE CookieParser_parse(_, _, _, _)
CookieParser_parse(lines, browser, profile, filename) ==
    IF lines = <<>> THEN <<>>
    ELSE LET line == Head(lines)
             rest == CookieParser_parse(Tail(lines), browser, profile, filename)
         IN IF IsSkippedLine(line) THEN rest
            ELSE IF CookieParts(line) = <<>> THEN rest
            ELSE <<Cookie(CookieParts(line), browser, profile, filename)>> \o rest

\* LineChunker.chunk: one chunk per line that is not empty and no comment
RECURSIVE LineChunker_chunk(_)
LineChunker_chunk(lines) ==
    IF lines = <<>> THEN <<>>
    ELSE (IF IsSkippedLine(Head(lines)) THEN <<>> ELSE <<<<Head(lines)>>>>)
         \o LineChunker_chunk(Tail(lines))

\* a mapping (dict) is the list of its <<key, value>> items in insertion
\* order; {} is the empty list
EmptyDict == <<>>

Keys(dict) == [i \in DOMAIN dict |-> dict[i][1]]

\* dict.get(key), None without the key
DictGet(dict, key) ==
    LET at == {i \in DOMAIN dict : dict[i][1] = key}
    IN IF at = {} THEN None ELSE dict[CHOOSE i \in at : TRUE][2]

HasKey(dict, key) == \E i \in DOMAIN dict : dict[i][1] = key

\* dict[key] = value
DictSet(dict, key, value) ==
    IF \E i \in DOMAIN dict : dict[i][1] = key
    THEN [i \in DOMAIN dict |-> IF dict[i][1] = key THEN <<key, value>> ELSE dict[i]]
    ELSE Append(dict, <<key, value>>)

CookieKeys ==
    <<"domain", "domain_specified", "path", "secure", "expiry", "name", "value">>

\* DelimitedLineExtractor.extract: {k: v for k, v in zip(keys, parts)}
DelimitedLineExtractor_extract(chunk) ==
    IF chunk = <<>> THEN EmptyDict
    ELSE LET parts == CookieParts(chunk[1])
         IN IF parts = <<>> THEN EmptyDict
            ELSE [i \in DOMAIN CookieKeys |-> <<CookieKeys[i], parts[i]>>]

\* the variant that never splits: the buffer and the lines as one chunk
RegexSeparatorChunker_chunk_whole(lines, seps, buf) ==
    IF buf \o lines # <<>> THEN <<buf \o lines>> ELSE <<>>

\* RegexSeparatorChunker.chunk: the lines between separator lines, empty
\* buffers left out; buf is the buffer so far
RECURSIVE RegexSeparatorChunker_chunk(_, _, _)
RegexSeparatorChunker_chunk(lines, seps, buf) ==
    IF lines = <<>> THEN (IF buf # <<>> THEN <<buf>> ELSE <<>>)
    ELSE IF \E i \in DOMAIN seps : Search(seps[i], Head(lines))
         THEN (IF buf # <<>> THEN <<buf>> ELSE <<>>)
              \o RegexSeparatorChunker_chunk(Tail(lines), seps, <<>>)
         ELSE RegexSeparatorChunker_chunk(Tail(lines), seps, Append(buf, Head(lines)))

\* FullFileChunker.chunk
FullFileChunker_chunk(lines) == IF lines # <<>> THEN <<lines>> ELSE <<>>

\* RecordDefinition.kv_delimiters default_factory
DefaultKvDelimiters == <<":", "=">>

\* the first index of the one-character delimiter d in ln, 0 if none
IndexOf(ln, d) ==
    LET at == {i \in 1..Len(ln) : Char(ln, i) = d}
    IN IF at = {} THEN 0 ELSE CHOOSE i \in at : \A j \in at : i <= j

\* the first delimiter of delims, in their order, that occurs in ln:
\* "for d in delims: m = d.search(ln); if m: ... break"; <<>> if none does
RECURSIVE FirstDelimiter(_, _)
FirstDelimiter(ln, delims) ==
    IF delims = <<>> THEN <<>>
    ELSE IF IndexOf(ln, Head(delims)) # 0 THEN <<IndexOf(ln, Head(delims))>>
    ELSE FirstDelimiter(ln, Tail(delims))

\* KVHeaderExtractor.extract.  A delimiter is compiled as \s*d\s*, so the
\* leftmost match starts at the blanks before the first d and ends after the
\* blanks behind it; key and value are stripped, which leaves
\* ln[:first d].strip() and ln[first d + 1:].strip()
RECURSIVE KVHeaderExtractor_extract(_, _, _)
KVHeaderExtractor_extract(lines, definition, data) ==
    IF lines = <<>> THEN data
    ELSE LET ln == Head(lines)
             headers == compiled(definition).headers
             at == FirstDelimiter(ln, DefaultKvDelimiters)
         IN IF (\E i \in DOMAIN headers : Search(headers[i], ln)) /\ at # <<>>
            THEN LET key == Strip(SubSeq(ln, 1, at[1] - 1))
                     val == Strip(SubSeq(ln, at[1] + 1, Len(ln)))
                     order == IF data = <<>> THEN <<>> ELSE DictGet(data, "_order")
                 IN KVHeaderExtractor_extract(Tail(lines), definition,
                        DictSet(DictSet(data, "_order", Append(order, key)), key, val))
            ELSE KVHeaderExtractor_extract(Tail(lines), definition, data)

\* [a.lower() for a in ([fname] + fdef.aliases)]
Candidates(fdef) == {Lower(fdef.name)} \cup {Lower(fdef.aliases[i]) : i \in DOMAIN fdef.aliases}

\* the variant that compares the raw keys as they are written
FirstKeyIn_case_sensitive(raw, candidates) ==
    LET at == {i \in DOMAIN raw : raw[i][1] \in candidates}
    IN IF at = {} THEN None ELSE raw[CHOOSE i \in at : \A j \in at : i <= j][1]

\* next((k for k in raw.keys() if k.lower() in candidates), None)
FirstKeyIn(raw, candidates) ==
    LET at == {i \in DOMAIN raw : Lower(raw[i][1]) \in candidates}
    IN IF at = {} THEN None ELSE raw[CHOOSE i \in at : \A j \in at : i <= j][1]

\* the loop of AliasGroupingTransformer.transform over the fields from the
\* i-th on (the names of the fields of a definition of the model differ)
RECURSIVE GroupFields(_, _, _, _)
GroupFields(raw, fields, i, result) ==
    IF i > Len(fields) THEN result
    ELSE LET fdef == fields[i]
             match == FirstKeyIn(raw, Candidates(fdef))
         IN IF match # None /\ match # ""
            THEN LET value == DictGet(raw, match)
                     withField == [result EXCEPT !.fields = DictSet(@, fdef.name, value)]
                     grouped ==
                        IF fdef.group # ""
                        THEN [withField EXCEPT !.groups =
                                DictSet(@, fdef.group,
                                        DictSet(IF HasKey(@, fdef.group)
                                                THEN DictGet(@, fdef.group)
                                                ELSE EmptyDict,
                                                fdef.name, value))]
                        ELSE withField
                 IN GroupFields(raw, fields, i + 1, grouped)
            ELSE GroupFields(raw, fields, i + 1, result)

\* {} of a transformer, as a record without type
EmptyRecord == [type |-> None, fields |-> EmptyDict, groups |-> EmptyDict]

\* AliasGroupingTransformer.transform
AliasGroupingTransformer_transform(raw, definition) ==
    IF raw = EmptyDict THEN EmptyRecord
    ELSE GroupFields(raw, definition.fields, 1,
                     [type |-> definition.key, fields |-> EmptyDict, groups |-> EmptyDict])

\* ------------------------------------------------------------------------
\* json.loads, for the JSON texts of the model: objects, strings with the
\* escapes \" \\ \/ \n \t, integers and the literals true, false and null,
\* with white space between the tokens.  A value is a record with its kind;
\* null is Python's None.
\* ------------------------------------------------------------------------
JsonSpace == {" ", "\t", "\n", "\r"}

JNone == [kind |-> "none"]

JStr(s) == [kind |-> "str", s |-> s]

JInt(digits) == [kind |-> "int", digits |-> digits]

JBool(b) == [kind |-> "bool", b |-> b]

JDict(items) == [kind |-> "dict", items |-> items]

\* a value found and the index after it, or no value
JsonAt(v, next) == [ok |-> TRUE, v |-> v, next |-> next]

JsonError == [ok |-> FALSE, v |-> JNone, next |-> 0]

\* the first index >= i of s that holds no white space, Len(s) + 1 if none
SkipJsonSpace(s, i) ==
    LET rest == {j \in i..Len(s) : Char(s, j) \notin JsonSpace}
    IN IF rest = {} THEN Max(i, Len(s) + 1) ELSE CHOOSE j \in rest : \A k \in rest : j <= k

\* s[i:].startswith(word)
HasAt(s, i, word) ==
    i >= 1 /\ i + Len(word) - 1 <= Len(s) /\ SubSeq(s, i, i + Len(word) - 1) = word

\* the characters of a string from i on, behind its opening quote; control
\* characters are not allowed inside a string
RECURSIVE JsonString(_, _, _)
JsonString(s, i, acc) ==
    IF i > Len(s) THEN JsonError
    ELSE IF Char(s, i) = "\"" THEN JsonAt(JStr(acc), i + 1)
    ELSE IF Char(s, i) = "\\"
         THEN IF i + 1 > Len(s) THEN JsonError
              ELSE IF Char(s, i + 1) \in {"\"", "\\", "/"}
                   THEN JsonString(s, i + 2, acc \o Char(s, i + 1))
              ELSE IF Char(s, i + 1) = "n" THEN JsonString(s, i + 2, acc \o "\n")
              ELSE IF Char(s, i + 1) = "t" THEN JsonString(s, i + 2, acc \o "\t")
              ELSE JsonError
    ELSE IF Char(s, i) \in {"\n", "\t", "\r"} THEN JsonError
    ELSE JsonString(s, i + 1, acc \o Char(s, i))

RECURSIVE DigitsEnd(_, _)
DigitsEnd(s, i) ==
    IF i <= Len(s) /\ Char(s, i) \in {"0", "1", "2", "3", "4", "5", "6", "7", "8", "9"}
    THEN DigitsEnd(s, i + 1) ELSE i

\* an integer from i on: digits without a leading zero, or 0
JsonNumber(s, i, end) ==
    IF end = i \/ (Char(s, i) = "0" /\ end > i + 1) THEN JsonError
    ELSE JsonAt(JInt(SubSeq(s, i, end - 1)), end)

RECURSIVE JsonValue(_, _)
RECURSIVE JsonMembers(_, _, _, _)
RECURSIVE JsonAfterKey(_, _, _)
RECURSIVE JsonAfterColon(_, _, _, _)
RECURSIVE JsonAfterMember(_, _, _, _)

\* the value that starts at i, white space skipped
JsonValue(s, i) ==
    IF i > Len(s) THEN JsonError
    ELSE IF Char(s, i) = "{" THEN JsonMembers(s, SkipJsonSpace(s, i + 1), <<>>, TRUE)
    ELSE IF Char(s, i) = "\"" THEN JsonString(s, i + 1, "")
    ELSE IF HasAt(s, i, "true") THEN JsonAt(JBool(TRUE), i + 4)
    ELSE IF HasAt(s, i, "false") THEN JsonAt(JBool(FALSE), i + 5)
    ELSE IF HasAt(s, i, "null") THEN JsonAt(JNone, i + 4)
    ELSE JsonNumber(s, i, DigitsEnd(s, i))

\* the members of an object from i on; "}" closes an object that has no
\* member yet, never one behind a comma
JsonMembers(s, i, items, first) ==
    IF i > Len(s) THEN JsonError
    ELSE IF Char(s, i) = "}" THEN (IF first THEN JsonAt(JDict(items), i + 1) ELSE JsonError)
    ELSE IF Char(s, i) = "\"" THEN JsonAfterKey(s, items, JsonString(s, i + 1, ""))
    ELSE JsonError

JsonAfterKey(s, items, key) ==
    IF ~key.ok THEN JsonError
    ELSE JsonAfterColon(s, items, key.v.s, SkipJsonSpace(s, key.next))

JsonAfterColon(s, items, name, i) ==
    IF ~HasAt(s, i, ":") THEN JsonError
    ELSE JsonAfterMember(s, items, name, JsonValue(s, SkipJsonSpace(s, i + 1)))

\* a later member of a name replaces the earlier one
JsonAfterMember(s, items, name, value) ==
    IF ~value.ok THEN JsonError
    ELSE IF HasAt(s, SkipJsonSpace(s, value.next), ",")
         THEN JsonMembers(s, SkipJsonSpace(s, SkipJsonSpace(s, value.next) + 1),
                          DictSet(items, name, value.v), FALSE)
    ELSE IF HasAt(s, SkipJsonSpace(s, value.next), "}")
         THEN JsonAt(JDict(DictSet(items, name, value.v)), SkipJsonSpace(s, value.next) + 1)
    ELSE JsonError

JsonWhole(s, r) ==
    IF r.ok /\ SkipJsonSpace(s, r.next) = Len(s) + 1 THEN r ELSE JsonError

\* json.loads(s); ok is FALSE where it raises
json_loads(s) == JsonWhole(s, JsonValue(s, SkipJsonSpace(s, 1)))

\* bool(v) of a parsed value
Truthy(v) ==
    CASE v.kind = "none" -> FALSE
      [] v.kind = "str" -> v.s # ""
      [] v.kind = "int" -> \E i \in 1..Len(v.digits) : Char(v.digits, i) # "0"
      [] v.kind = "bool" -> v.b
      [] v.kind = "dict" -> v.items # <<>>

\* isinstance(v, dict)
IsDict(v) == v.kind = "dict"

\* v.get(key) of a dict
JGet(v, key) == IF HasKey(v.items, key) THEN DictGet(v.items, key) ELSE JNone

\* ------------------------------------------------------------------------
\* re.finditer(pat, s, flags=re.S) for the patterns of VaultExtractor: a
\* pattern is the list of its pieces, matched with backtracking in the
\* order of the re module (a greedy piece longest first, a lazy one
\* shortest first, an alternation left to right)
\* ------------------------------------------------------------------------
Lit(text) == [k |-> "lit", c |-> <<text>>]

\* \s*
Blanks == [k |-> "\\s*", c |-> <<>>]

\* [^{}]*
NoBraces == [k |-> "[^{}]*", c |-> <<>>]

\* .+?
LazyAny == [k |-> ".+?", c |-> <<>>]

\* (?:a|b)
OneOf(words) == [k |-> "alt", c |-> words]

InClass(piece, ch) ==
    IF piece.k = "\\s*" THEN ch \in JsonSpace ELSE ch \notin {"{", "}"}

\* how many characters from pos on are in the class of the piece
RunLen(s, pos, piece) ==
    LET stops == {j \in pos..Len(s) : ~InClass(piece, Char(s, j))}
    IN IF stops = {} THEN Len(s) - pos + 1
       ELSE (CHOOSE j \in stops : \A k \in stops : j <= k) - pos

RECURSIVE ReMatch(_, _, _)

\* for every length in lens of a repeated piece at pos, the index behind
\* the match of the rest of the pattern
RestEnds(s, pos, lens, rest) == {<<n, ReMatch(s, pos + n, rest)>> : n \in lens}

\* the match with the longest repetition that lets the rest match
LongestOf(ends) ==
    LET good == {e \in ends : e[2] # 0}
    IN IF good = {} THEN 0
       ELSE (CHOOSE e \in good : \A f \in good : f[1] <= e[1])[2]

\* the match with the shortest repetition that lets the rest match
ShortestOf(ends) ==
    LET good == {e \in ends : e[2] # 0}
    IN IF good = {} THEN 0
       ELSE (CHOOSE e \in good : \A f \in good : e[1] <= f[1])[2]

\* for the i-th word of an alternation found at pos, the index behind the
\* match of the rest of the pattern
WordEnds(s, pos, words, rest) ==
    {<<i, IF HasAt(s, pos, words[i]) THEN ReMatch(s, pos + Len(words[i]), rest) ELSE 0>> :
        i \in DOMAIN words}

\* the index behind the match of the pieces at pos, 0 without a match
ReMatch(s, pos, pieces) ==
    IF pieces = <<>> THEN pos
    ELSE CASE Head(pieces).k = "lit" ->
                IF HasAt(s, pos, Head(pieces).c[1])
                THEN ReMatch(s, pos + Len(Head(pieces).c[1]), Tail(pieces))
                ELSE 0
           [] Head(pieces).k \in {"\\s*", "[^{}]*"} ->
                LongestOf(RestEnds(s, pos, 0..RunLen(s, pos, Head(pieces)), Tail(pieces)))
           [] Head(pieces).k = ".+?" ->
                ShortestOf(RestEnds(s, pos, 1..(Len(s) - pos + 1), Tail(pieces)))
           [] Head(pieces).k = "alt" ->
                ShortestOf(WordEnds(s, pos, Head(pieces).c, Tail(pieces)))

\* the first "{" of s at i or behind it, 0 if there is none
NextBrace(s, i) ==
    LET at == {j \in i..Len(s) : Char(s, j) = "{"}
    IN IF at = {} THEN 0 ELSE CHOOSE j \in at : \A k \in at : j <= k

RECURSIVE LastMatch(_, _, _, _)
RECURSIVE LastMatchFrom(_, _, _, _, _)

\* list(re.finditer(pat, s))[-1].group(0), last being the last match before
\* i and "" there being none (a match of these patterns starts with "{"
\* and the next one is searched behind it)
LastMatch(s, i, pieces, last) ==
    IF i = 0 THEN last
    ELSE LastMatchFrom(s, i, pieces, last, ReMatch(s, i, pieces))

LastMatchFrom(s, i, pieces, last, end) ==
    IF end # 0 THEN LastMatch(s, NextBrace(s, end), pieces, SubSeq(s, i, end - 1))
    ELSE LastMatch(s, NextBrace(s, i + 1), pieces, last)

\* "name"\s*:\s*".+?"
QuotedMember(name) ==
    <<Lit("\"" \o name \o "\""), Blanks, Lit(":"), Blanks, Lit("\""), LazyAny, Lit("\"")>>

\* the three patterns of VaultExtractor.extract
VaultPatterns ==
    << <<Lit("{"), NoBraces>> \o QuotedMember("data") \o <<NoBraces>>
            \o QuotedMember("iv") \o <<NoBraces>> \o QuotedMember("salt")
            \o <<NoBraces, Lit("}")>>,
       <<Lit("{"), NoBraces>> \o QuotedMember("encrypted") \o <<NoBraces>>
            \o QuotedMember("nonce") \o <<NoBraces>>
            \o <<Lit("\"kdf\""), Blanks, Lit(":"), Blanks, Lit("\""),
                 OneOf(<<"pbkdf2", "scrypt">>), Lit("\"")>>
            \o <<NoBraces>> \o QuotedMember("salt") \o <<NoBraces, Lit("}")>>,
       <<Lit("{"), NoBraces>> \o QuotedMember("ct") \o <<NoBraces>>
            \o QuotedMember("iv") \o <<NoBraces>> \o QuotedMember("s")
            \o <<NoBraces, Lit("}")>> >>

\* the loop over the patterns: the last match of the first pattern that has
\* one, "" for found = None
RECURSIVE FoundIn(_, _)
RECURSIVE FoundOr(_, _, _)
FoundIn(de_escaped, patterns) ==
    IF patterns = <<>> THEN ""
    ELSE FoundOr(de_escaped, patterns,
                 LastMatch(de_escaped, NextBrace(de_escaped, 1), Head(patterns), ""))

FoundOr(de_escaped, patterns, found) ==
    IF found # "" THEN found ELSE FoundIn(de_escaped, Tail(patterns))

\* ------------------------------------------------------------------------
\* parsing/strategies/defaults.py: VaultExtractor and VaultTransformer
\* ------------------------------------------------------------------------
VaultDataLimit == 4000

\* s.strip(): blanks, tabs and line ends
RECURSIVE RStripSpace(_)
RStripSpace(s) ==
    IF s # "" /\ Char(s, Len(s)) \in JsonSpace THEN RStripSpace(SubSeq(s, 1, Len(s) - 1)) ELSE s

StripSpace(s) == RStripSpace(SubSeq(s, SkipJsonSpace(s, 1), Len(s)))

\* s.replace(ch, "") for the characters lo..hi of s, by halves
RECURSIVE WithoutBetween(_, _, _, _)
WithoutBetween(s, ch, lo, hi) ==
    IF lo > hi THEN ""
    ELSE IF lo = hi THEN (IF Char(s, lo) = ch THEN "" ELSE Char(s, lo))
    ELSE WithoutBetween(s, ch, lo, (lo + hi) \div 2)
            \o WithoutBetween(s, ch, (lo + hi) \div 2 + 1, hi)

Without(s, ch) == WithoutBetween(s, ch, 1, Len(s))

\* s[:n] for n >= 0
Clip(s, n) == SubSeq(s, 1, IF n <= Len(s) THEN n ELSE Len(s))

\* parsed: json.loads(content) where content starts with "{" and loads,
\* None otherwise
ParsedOf(content) ==
    IF StartsWith(content, "{") THEN json_loads(content).v ELSE JNone

\* the variant that reads the lower-case key only
CryptoOf_lower_case_only(parsed) ==
    IF Truthy(JGet(parsed, "crypto")) THEN JGet(parsed, "crypto") ELSE JDict(<<>>)

\* crypto = parsed.get("crypto") or parsed.get("Crypto") or {}
CryptoOf(parsed) ==
    IF Truthy(JGet(parsed, "crypto")) THEN JGet(parsed, "crypto")
    ELSE IF Truthy(JGet(parsed, "Crypto")) THEN JGet(parsed, "Crypto")
    ELSE JDict(<<>>)

\* crypto.get(key) if isinstance(crypto, dict) else None
GetIfDict(obj, key) == IF IsDict(obj) THEN JGet(obj, key) ELSE JNone

ElectrumRecord(content) ==
    << <<"vault_type", "electrum">>, <<"vault_data", Clip(content, VaultDataLimit)>>,
       <<"seed_words", "">>, <<"key_phrase", "">> >>

KeystoreRecord(content, lowered, parsed, crypto) ==
    << <<"vault_type", IF Contains(lowered, "metamask") THEN "metamask" ELSE "generic">>,
       <<"vault_data", Clip(content, VaultDataLimit)>>,
       <<"keystore_address", JGet(parsed, "address")>>,
       <<"keystore_kdf", GetIfDict(crypto, "kdf")>>,
       <<"keystore_cipher", GetIfDict(crypto, "cipher")>>,
       <<"key_phrase", "">>, <<"seed_words", "">> >>

BitcoinRecord(content) ==
    << <<"vault_type", "bitcoin">>, <<"vault_data", Clip(content, VaultDataLimit)>>,
       <<"key_phrase", "">>, <<"seed_words", "">> >>

\* data_obj = json.loads(found), None where it raises
FoundRecord(found, data_obj) ==
    << <<"vault_type", "metamask">>, <<"vault_data", Clip(found, VaultDataLimit)>>,
       <<"keystore_kdf", GetIfDict(data_obj, "kdf")>>,
       <<"keystore_cipher", GetIfDict(data_obj, "cipher")>>,
       <<"key_phrase", "">>, <<"seed_words", "">> >>

FoundOrNothing(found) ==
    IF found # "" THEN FoundRecord(found, json_loads(found).v) ELSE EmptyDict

IsElectrum(parsed) ==
    Truthy(parsed) /\ IsDict(parsed)
        /\ (HasKey(parsed.items, "seed_version") \/ HasKey(parsed.items, "wallet_type"))

IsKeystore(parsed) ==
    Truthy(parsed) /\ IsDict(parsed)
        /\ (HasKey(parsed.items, "crypto") \/ HasKey(parsed.items, "Crypto")
            \/ HasKey(parsed.items, "version"))

IsBitcoin(lowered) == Contains(lowered, "sqlite format 3") \/ Contains(lowered, "wallet.dat")

\* the variant that tries the Bitcoin hint before the keystore keys
VaultClassify_bitcoin_first(content, lowered, parsed) ==
    IF IsElectrum(parsed) THEN ElectrumRecord(content)
    ELSE IF IsBitcoin(lowered) THEN BitcoinRecord(content)
    ELSE IF IsKeystore(parsed) THEN KeystoreRecord(content, lowered, parsed, CryptoOf(parsed))
    ELSE FoundOrNothing(FoundIn(Without(content, "\\"), VaultPatterns))

\* the body of VaultExtractor.extract behind content, lowered and parsed
VaultClassify(content, lowered, parsed) ==
    IF IsElectrum(parsed) THEN ElectrumRecord(content)
    ELSE IF IsKeystore(parsed) THEN KeystoreRecord(content, lowered, parsed, CryptoOf(parsed))
    ELSE IF IsBitcoin(lowered) THEN BitcoinRecord(content)
    ELSE FoundOrNothing(FoundIn(Without(content, "\\"), VaultPatterns))

VaultExtractContent(content) == VaultClassify(content, Lower(content), ParsedOf(content))

\* VaultExtractor.extract(lines, definition)
VaultExtractor_extract(lines) == VaultExtractContent(StripSpace(Join(lines, "\n")))

\* out = {"type": definition.key}; out.update(raw): a later item of a key
\* replaces the earlier one
RECURSIVE DictUpdate(_, _)
DictUpdate(out, raw) ==
    IF raw = <<>> THEN out
    ELSE DictUpdate(DictSet(out, Head(raw)[1], Head(raw)[2]), Tail(raw))

\* a dict of the vault strategies as a record of its keys
AsRecord(dict) == [k \in Range(Keys(dict)) |-> DictGet(dict, k)]

\* VaultTransformer.transform(raw, definition)
VaultTransformer_transform(raw, definition) ==
    IF raw = EmptyDict THEN EmptyRecord
    ELSE AsRecord(DictUpdate(<< <<"type", definition.key>> >>, raw))

\* ------------------------------------------------------------------------
\* The lexers and grammars of parsing/parsers/password_parser.py and
\* system_parser.py.  PLY itself (stealer_parser/ply) is not among the
\* sources: the lexer is taken to try the t_ rules in the order they are
\* written, and a text the grammar does not derive is taken to yield no
\* result (yacc returning None, Parser.parse returning []).
\* ------------------------------------------------------------------------
\* the pieces of a token rule: [Xx] for every letter of a word, a word as
\* it is written, \s* and \s+
AnyCase(word) == [i \in 1..Len(word) |-> [k |-> "anycase", c |-> Char(word, i)]]

Exact(word) == [i \in 1..Len(word) |-> [k |-> "exact", c |-> Char(word, i)]]

Capital(word) == AnyCase(Char(word, 1)) \o Exact(SubSeq(word, 2, Len(word)))

Spaces0 == <<[k |-> "\\s*", c |-> ""]>>

Spaces1 == <<[k |-> "\\s+", c |-> ""]>>

\* re.match of a sequence of pieces at position pos of s: the position after
\* the match, 0 without a match
RECURSIVE MatchAt(_, _, _)
MatchAt(s, pos, pieces) ==
    IF pieces = <<>> THEN pos
    ELSE LET e == Head(pieces)
         IN CASE e.k = "anycase" ->
                    IF pos <= Len(s) /\ LowerChar(Char(s, pos)) = e.c
                    THEN MatchAt(s, pos + 1, Tail(pieces)) ELSE 0
              [] e.k = "exact" ->
                    IF pos <= Len(s) /\ Char(s, pos) = e.c
                    THEN MatchAt(s, pos + 1, Tail(pieces)) ELSE 0
              [] e.k = "\\s*" -> MatchAt(s, SkipSpace(s, pos), Tail(pieces))
              [] e.k = "\\s+" ->
                    IF SkipSpace(s, pos) = pos THEN 0
                    ELSE MatchAt(s, SkipSpace(s, pos), Tail(pieces))

\* the first alternative of a rule that matches at pos
RECURSIVE MatchAlternatives(_, _, _)
MatchAlternatives(s, pos, alts) ==
    IF alts = <<>> THEN 0
    ELSE IF MatchAt(s, pos, Head(alts)) # 0 THEN MatchAt(s, pos, Head(alts))
    ELSE MatchAlternatives(s, pos, Tail(alts))

\* a token rule "(?:a|b)\s*:"
PrefixRule(type, alts) ==
    [type |-> type, alts |-> [i \in DOMAIN alts |-> alts[i] \o Spaces0 \o Exact(":")]]

\* PasswordParser: t_SOFT_PREFIX, t_HOST_PREFIX, t_USER_PREFIX, t_PASSWORD_PREFIX
PasswordParser_rules ==
    <<PrefixRule("SOFT_PREFIX", <<AnyCase("soft")>>),
      PrefixRule("HOST_PREFIX", <<AnyCase("host"), AnyCase("url")>>),
      PrefixRule("USER_PREFIX", <<AnyCase("login"), AnyCase("user")>>),
      PrefixRule("PASSWORD_PREFIX",
                 <<AnyCase("password"), AnyCase("pass"), AnyCase("pwd")>>)>>

\* SystemParser: t_UID_PREFIX ... t_DATE_PREFIX
SystemParser_rules ==
    <<PrefixRule("UID_PREFIX", <<AnyCase("uid")>>),
      PrefixRule("COMPUTER_NAME_PREFIX",
                 <<Capital("computer") \o Spaces1 \o Capital("name")>>),
      PrefixRule("HWID_PREFIX", <<AnyCase("hwid")>>),
      PrefixRule("USER_PREFIX", <<Capital("user")>>),
      PrefixRule("IP_PREFIX", <<AnyCase("ip")>>),
      PrefixRule("COUNTRY_PREFIX", <<Capital("country")>>),
      PrefixRule("DATE_PREFIX",
                 <<Capital("date"), Capital("log") \o Spaces0 \o Capital("date")>>)>>

\* the tokens of one line: t_ignore is skipped, then the first prefix rule
\* that matches gives a token, else t_WORD takes the rest of the line
FirstRule(ln, at, rules) ==
    LET hits == {i \in DOMAIN rules : MatchAlternatives(ln, at, rules[i].alts) # 0}
    IN IF hits = {} THEN 0 ELSE CHOOSE h \in hits : \A g \in hits : h <= g

RECURSIVE LexFrom(_, _, _)
LexToken(ln, at, rules, i, end) ==
    <<[type |-> rules[i].type, value |-> SubSeq(ln, at, end - 1)]>> \o LexFrom(ln, end, rules)

LexAt(ln, at, rules, i) ==
    IF at > Len(ln) THEN <<>>
    ELSE IF i = 0 THEN <<[type |-> "WORD", value |-> SubSeq(ln, at, Len(ln))]>>
    ELSE LexToken(ln, at, rules, i, MatchAlternatives(ln, at, rules[i].alts))

LexFrom(ln, pos, rules) ==
    LexAt(ln, SkipSpace(ln, pos), rules, FirstRule(ln, SkipSpace(ln, pos), rules))

\* the token lists of the lines that hold a token (t_NEWLINE takes runs of
\* newlines, so lines without a token vanish)
OneIfTokens(toks) == IF toks = <<>> THEN <<>> ELSE <<toks>>

RECURSIVE LexLines(_, _)
LexLines(lines, rules) ==
    IF lines = <<>> THEN <<>>
    ELSE OneIfTokens(LexFrom(Head(lines), 1, rules)) \o LexLines(Tail(lines), rules)

\* "X_PREFIX WORD NEWLINE"
IsEntry(toks, type) ==
    Len(toks) = 2 /\ toks[1].type = type /\ toks[2].type = "WORD"

\* Credential(software=, host=, username=, password=): the fields
\* process_leak and the claims look at; filepath is not passed
Credential(software, host, username, password, filepath) ==
    [type |-> "credential", software |-> software, host |-> host,
     username |-> username, password |-> password, filepath |-> filepath]

\* p_credentials / p_credential over the token lines from the i-th on
RECURSIVE Credentials(_, _)
Credentials(toklines, i) ==
    IF i > Len(toklines) THEN <<>>
    ELSE <<Credential(toklines[i][2].value, toklines[i + 1][2].value,
                      toklines[i + 2][2].value, toklines[i + 3][2].value, None)>>
         \o Credentials(toklines, i + 4)

\* the token lines are credential after credential
DerivesCredentials(toklines) ==
    /\ Len(toklines) > 0 /\ Len(toklines) % 4 = 0
    /\ \A b \in 0..((Len(toklines) \div 4) - 1) :
        /\ IsEntry(toklines[4 * b + 1], "SOFT_PREFIX")
        /\ IsEntry(toklines[4 * b + 2], "HOST_PREFIX")
        /\ IsEntry(toklines[4 * b + 3], "USER_PREFIX")
        /\ IsEntry(toklines[4 * b + 4], "PASSWORD_PREFIX")

CredentialsIfDerived(toklines) ==
    IF DerivesCredentials(toklines) THEN Credentials(toklines, 1) ELSE <<>>

PasswordParser_parse(lines) ==
    CredentialsIfDerived(LexLines(lines, PasswordParser_rules))

\* p_system_entry: mapping.get(p[1].lower()); "" stands for no key
SystemKey(label) ==
    CASE label = "uid:" -> "machine_id"
      [] label = "computer name:" -> "computer_name"
      [] label = "hwid:" -> "hardware_id"
      [] label = "user:" -> "machine_user"
      [] label = "ip:" -> "ip_address"
      [] label = "country:" -> "country"
      [] label = "date:" -> "log_date"
      [] label = "log date:" -> "log_date"
      [] OTHER -> ""

\* {key: value} as the pair <<key, value>>, {} as <<>>
RECURSIVE SystemEntries(_)
SystemEntries(toklines) ==
    IF toklines = <<>> THEN <<>>
    ELSE LET key == SystemKey(Lower(Head(toklines)[1].value))
             value == Strip(Head(toklines)[2].value)
         IN <<IF key # "" THEN <<key, value>> ELSE <<>>>> \o SystemEntries(Tail(toklines))

\* the token lines are system_entry after system_entry
DerivesSystemInfo(toklines) ==
    /\ toklines # <<>>
    /\ \A i \in DOMAIN toklines :
        Len(toklines[i]) = 2 /\ toklines[i][1].type # "WORD"
            /\ toklines[i][2].type = "WORD"

SystemInfoIfDerived(toklines) ==
    IF DerivesSystemInfo(toklines) THEN SystemEntries(toklines) ELSE <<>>

SystemParser_parse(lines) ==
    SystemInfoIfDerived(LexLines(lines, SystemParser_rules))

\* ------------------------------------------------------------------------
\* parsing/parsers/configurable.py
\* ------------------------------------------------------------------------
\* self.parts.chunker.chunk(lines, self.definition) for the built-in
\* chunkers
Chunk(chunker, lines, definition) ==
    CASE chunker.name = "RegexSeparatorChunker" ->
            RegexSeparatorChunker_chunk(lines, compiled(definition).separators, <<>>)
      [] chunker.name = "LineChunker" -> LineChunker_chunk(lines)
      [] chunker.name = "FullFileChunker" -> FullFileChunker_chunk(lines)

\* self.parts.extractor.extract(chunk, self.definition)
Extract(extractor, chunk, definition) ==
    CASE extractor.name = "KVHeaderExtractor" ->
            KVHeaderExtractor_extract(chunk, definition, EmptyDict)
      [] extractor.name = "DelimitedLineExtractor" -> DelimitedLineExtractor_extract(chunk)
      [] extractor.name = "VaultExtractor" -> VaultExtractor_extract(chunk)

\* self.parts.transformer.transform(raw, self.definition)
Transform(transformer, raw, definition) ==
    CASE transformer.name = "AliasGroupingTransformer" ->
            AliasGroupingTransformer_transform(raw, definition)
      [] transformer.name = "VaultTransformer" -> VaultTransformer_transform(raw, definition)

\* rx.search(filename) for the path extractors of the model: whether there
\* is a match and its groupdict(), None for a group that took no part
NoMatch == [matched |-> FALSE, groups |-> EmptyDict]

\* how many characters of s from pos on are not in stops
RunOutside(s, pos, stops) ==
    LET at == {j \in pos..Len(s) : Char(s, j) \in stops}
    IN IF at = {} THEN Len(s) - pos + 1
       ELSE (CHOOSE j \in at : \A k \in at : j <= k) - pos

\* Cookies/(?P<browser>[^_/]+)_(?P<profile>[^./]+) matched at i
CookiesDirGroups(filename, i) ==
    LET from == i + Len("Cookies/")
        b == RunOutside(filename, from, {"_", "/"})
        p == RunOutside(filename, from + b + 1, {".", "/"})
    IN IF HasAt(filename, i, "Cookies/") /\ b >= 1
            /\ HasAt(filename, from + b, "_") /\ p >= 1
       THEN [matched |-> TRUE,
             groups |-> << <<"browser", SubSeq(filename, from, from + b - 1)>>,
                           <<"profile", SubSeq(filename, from + b + 1, from + b + p)>> >>]
       ELSE NoMatch

\* (?P<browser>Chrome|Firefox)(?:/(?P<profile>Default))? matched at i
BrowserDirGroups(filename, i) ==
    LET word == IF HasAt(filename, i, "Chrome") THEN "Chrome"
                ELSE IF HasAt(filename, i, "Firefox") THEN "Firefox" ELSE ""
    IN IF word = "" THEN NoMatch
       ELSE [matched |-> TRUE,
             groups |-> << <<"browser", word>>,
                           <<"profile", IF HasAt(filename, i + Len(word), "/Default")
                                        THEN "Default" ELSE None>> >>]

PathCookiesDir == "Cookies/(?P<browser>[^_/]+)_(?P<profile>[^./]+)"

PathBrowserDir == "(?P<browser>Chrome|Firefox)(?:/(?P<profile>Default))?"

GroupsAt(rx, filename, i) ==
    CASE rx.src = PathCookiesDir -> CookiesDirGroups(filename, i)
      [] rx.src = PathBrowserDir -> BrowserDirGroups(filename, i)
      [] OTHER -> NoMatch

\* the leftmost match
SearchGroups(rx, filename) ==
    LET at == {i \in 1..Len(filename) : GroupsAt(rx, filename, i).matched}
    IN IF at = {} THEN NoMatch
       ELSE GroupsAt(rx, filename, CHOOSE i \in at : \A j \in at : i <= j)

\* record[k] = v
RecordSet(record, k, v) ==
    [x \in DOMAIN record \cup {k} |-> IF x = k THEN v ELSE record[x]]

\* for k, v in gd.items(): skip None, keep browser and profile
RECURSIVE MergeGroups(_, _)
MergeGroups(record, gd) ==
    IF gd = <<>> THEN record
    ELSE MergeGroups(IF Head(gd)[2] # None /\ Head(gd)[1] \in {"browser", "profile"}
                     THEN RecordSet(record, Head(gd)[1], Head(gd)[2])
                     ELSE record,
                     Tail(gd))

\* for rx in extractors: m = rx.search(filename); if m: merge m.groupdict()
RECURSIVE ApplyPathExtractors(_, _, _)
ApplyPathExtractors(record, filename, extractors) ==
    IF extractors = <<>> THEN record
    ELSE ApplyPathExtractors(MergeGroups(record, SearchGroups(Head(extractors), filename).groups),
                             filename, Tail(extractors))

\* self.definition.compiled.get(key, [])
CompiledGet(c, key) == IF key \in DOMAIN c THEN c[key] ELSE <<>>

\* lines 36-50: a record that is not empty is kept and, the filename being
\* given, gets the groups of the path extractors; compiled has no
\* "path_extractors" entry
OneIfRecord(record, definition, filename) ==
    IF record = EmptyRecord THEN <<>>
    ELSE IF filename # None /\ filename # ""
    THEN <<ApplyPathExtractors(record, filename,
                               CompiledGet(compiled(definition), "path_extractors"))>>
    ELSE <<record>>

RECURSIVE ParseChunks(_, _, _)
ParseChunks(parser, chunks, filename) ==
    IF chunks = <<>> THEN <<>>
    ELSE OneIfRecord(Transform(parser.parts.transformer,
                               Extract(parser.parts.extractor, Head(chunks),
                                       parser.definition),
                               parser.definition),
                     parser.definition, filename)
         \o ParseChunks(parser, Tail(chunks), filename)

\* ConfigurableParser.parse(text, filename=filename), filename None without
\* the keyword
ConfigurableParser_parse(parser, lines, filename) ==
    ParseChunks(parser, Chunk(parser.parts.chunker, lines, parser.definition), filename)

\* ------------------------------------------------------------------------
\* services/leak_processor.py
\* ------------------------------------------------------------------------
\* LeakProcessor._get_system_dir
_get_system_dir(filepath) ==
    LET parts == Split(filepath, "/")
    IN IF Len(parts) > 1 THEN parts[1] ELSE ""

\* LeakProcessor._infer_browser
_infer_browser(filepath) ==
    LET fp == Lower(filepath)
    IN IF Contains(fp, "chrome") THEN "chrome"
       ELSE IF Contains(fp, "brave") THEN "brave"
       ELSE IF Contains(fp, "edge") THEN "edge"
       ELSE IF Contains(fp, "firefox") THEN "firefox"
       ELSE "unknown"

\* the variant that looks for "default" anywhere in the path
_infer_profile_anywhere(filepath) ==
    IF Contains(Lower(filepath), "default") THEN "default" ELSE "unknown"

\* LeakProcessor._infer_profile
_infer_profile(filepath) ==
    LET parts == Split(filepath, "/")
        at == {i \in DOMAIN parts :
                Lower(parts[i]) \in {"default", "profile 1", "profile1",
                                     "profile 2", "profile2"}}
    IN IF at = {} THEN "unknown" ELSE parts[CHOOSE i \in at : \A j \in at : i <= j]

\* LeakProcessor._infer_vault_browser_profile
_infer_vault_browser_profile(filepath) ==
    LET parts == Split(filepath, "/")
        at == {i \in DOMAIN parts : Lower(parts[i]) = "wallets"}
    IN IF at = {} THEN <<_infer_browser(filepath), _infer_profile(filepath)>>
       ELSE LET wallet_idx == CHOOSE i \in at : \A j \in at : i <= j
            IN IF wallet_idx + 1 <= Len(parts)
               THEN LET combo == parts[wallet_idx + 1]
                    IN IF Contains(combo, " ")
                       THEN LET browser == Split(combo, " ")[1]
                            IN <<browser, SubSeq(combo, Len(browser) + 2, Len(combo))>>
                       ELSE <<combo, _infer_profile(filepath)>>
               ELSE <<_infer_browser(filepath), _infer_profile(filepath)>>

\* x or y for strings and None
Or(x, y) == IF x = None \/ x = "" THEN y ELSE x

\* Vault(vault_type=rec.get("vault_type"), ..., filepath=, browser=, profile=)
Vault(rec, filepath, browser, profile) ==
    [type |-> "vault",
     vault_type |-> DictGet(rec, "vault_type"), title |-> DictGet(rec, "title"),
     url |-> DictGet(rec, "url"), username |-> DictGet(rec, "username"),
     password |-> DictGet(rec, "password"), notes |-> DictGet(rec, "notes"),
     vault_data |-> DictGet(rec, "vault_data"), key_phrase |-> DictGet(rec, "key_phrase"),
     seed_words |-> DictGet(rec, "seed_words"),
     filepath |-> filepath, browser |-> browser, profile |-> profile]

\* a record of ConfigurableParser as the dict process_leak reads with
\* rec.get: the keys type, fields and groups
RecordItems(rec) ==
    <<<<"type", rec.type>>, <<"fields", rec.fields>>, <<"groups", rec.groups>>>>

\* f.get(key, "")
FieldGet(f, key) == IF HasKey(f, key) THEN DictGet(f, key) ELSE ""

\* vb = vb or fb; vp = vp or fp, when one of them is None
Inferred(vb, vp, pair) ==
    IF vb = None \/ vp = None THEN <<Or(vb, pair[1]), Or(vp, pair[2])>> ELSE <<vb, vp>>

VaultWith(items, file_path, pair) ==
    Vault(items, file_path, Or(pair[1], "unknown"), Or(pair[2], "unknown"))

\* the vault branch of the loop over the records of a ConfigurableParser
VaultOf(rec, file_path) ==
    VaultWith(RecordItems(rec), file_path,
              Inferred(Or(DictGet(RecordItems(rec), "browser"), None),
                       Or(DictGet(RecordItems(rec), "profile"), None),
                       _infer_vault_browser_profile(file_path)))

\* the cookie branch: f is rec["fields"], a dict; the record is left out
\* when f is empty
CookieFrom(f, browser, profile, file_path) ==
    Cookie(<<FieldGet(f, "domain"), FieldGet(f, "domain_specified"),
             FieldGet(f, "path"), FieldGet(f, "secure"), FieldGet(f, "expiry"),
             FieldGet(f, "name"), FieldGet(f, "value")>>, browser, profile, file_path)

CookieOf(rec, file_path) ==
    CookieFrom(rec.fields,
               Or(DictGet(RecordItems(rec), "browser"),
                  Or(_infer_browser(file_path), "unknown")),
               Or(DictGet(RecordItems(rec), "profile"),
                  Or(_infer_profile(file_path), "unknown")),
               file_path)

\* ========================================================================
\* State
\* ========================================================================
VARIABLES
    scPath,     \* score_definition: the path argument
    scLines,    \* score_definition: the sample_lines argument
    scDef,      \* score_definition: the definition argument
    scScore,    \* score_definition: the returned score, NoScore before the call
    _impls,     \* StrategyRegistry._impls: interface -> list of (caps, impl)
    fcDef,      \* ParserFactory.build_parts: the definition of the last call
    fcParts,    \* ParserFactory.build_parts: what the last call returned
    selStore,   \* ParserRegistry._definition_store: NoStore or the loaded list
    selPath,    \* find_best_for: the path argument
    selSample,  \* find_best_for: the lines of the sample_text argument
    selThreshold, \* find_best_for: the threshold argument
    selResult,  \* find_best_for: what the call returned, NotCalled before it
    ckLines,    \* CookieParser.parse: the lines of the text argument
    ckParsed,   \* CookieParser.parse: whether the call has returned
    ckCookies,  \* CookieParser.parse: the returned list of cookies
    ckRecords,  \* the raw mappings DelimitedLineExtractor.extract returns for
                \* the chunks LineChunker.chunk makes of the same lines
    lkArchive,  \* process_leak: archive.namelist() with the text of each entry
    lkFault,    \* process_leak: which call raises, if any
    lkSettings, \* LeakProcessor.settings
    lkNext,     \* process_leak: the index of the next entry of the loop
    lkSystems,  \* process_leak: the dict systems, as the list of its values
                \* in insertion order, each with its key
    lkOutcome,  \* process_leak: "running", "returned" or the exception raised
    lkLeak,     \* process_leak: leak.systems
    lkTrace     \* per entry gone through: the parser chosen, the records it
                \* returned and the error logged

VARIABLES
    tsValue,     \* truncate_string: the value argument, None or a string
    tsMaxLength, \* truncate_string: the max_length argument
    tsResult     \* truncate_string: what the call returned, NotReturned before

truncateVars == <<tsValue, tsMaxLength, tsResult>>

VARIABLES
    vtDoc,      \* the file VaultExtractor.extract is applied to, as it is made
    vtLines,    \* VaultExtractor.extract: the lines argument
    vtRaw       \* VaultExtractor.extract: the returned dict, NotExtracted before

vaultVars == <<vtDoc, vtLines, vtRaw>>

VARIABLES
    cfDoc,      \* the document of a definition file, as yaml.safe_load gives it
    cfFilename, \* ConfigurableParser.parse: the filename keyword, None without
    cfLines,    \* ConfigurableParser.parse: the lines of the text argument
    cfParser,   \* the ConfigurableParser built for the definition, NotBuilt
                \* before
    cfRecords   \* ConfigurableParser.parse: the returned list, NotParsed before

configurableVars == <<cfDoc, cfFilename, cfLines, cfParser, cfRecords>>

VARIABLES
    exLeak,     \* export_leak: the leak argument
    exSink,     \* the sink behind the connection: whether it enforces the
                \* foreign keys, whether the connection drops on commit
    exResult    \* export_leak: how the call ended and what the sink then
                \* holds, NotExported before

exportVars == <<exLeak, exSink, exResult>>

VARIABLES
    sgDef,      \* the definition the strategies are applied with
    sgLines,    \* RegexSeparatorChunker.chunk: the text argument, as lines
    sgChunks,   \* what chunk yielded, NotChunked before
    sgRaws,     \* KVHeaderExtractor.extract of each chunk, NotChunked before
    sgRecords   \* AliasGroupingTransformer.transform of each raw dict,
                \* NotChunked before

strategyVars == <<sgDef, sgLines, sgChunks, sgRaws, sgRecords>>

VARIABLES
    jrMatch,    \* _write_netscape_cookie_jar: the match argument
    jrText,     \* the text of the file written, NotWritten before
    jrParsed    \* CookieParser.parse of that text, NotWritten before

jarVars == <<jrMatch, jrText, jrParsed>>

VARIABLES
    daoCall,    \* BaseDAO._execute_query / _execute_values: the call and
                \* what raises in it
    daoRun      \* where the call is, its locals and what it has done to the
                \* connection and the pool

daoVars == <<daoCall, daoRun>>

VARIABLES
    wkQueue,    \* the Redis list stealer_processing_queue, pushed at the
                \* head and popped at the end
    wkStatus,   \* the Redis keys job_status:<session_id>
    wkDb,       \* the status of the sessions in the database
    wkFiles,    \* the jobs whose temporary archive file exists
    wkRuns,     \* how often process_archive_async was called for a job
    wkRaised,   \* the jobs for which it raised an Exception
    wkPc,       \* BackgroundWorker.start_worker: where the loop is
    wkRunning   \* BackgroundWorker.running

workerVars == <<wkQueue, wkStatus, wkDb, wkFiles, wkRuns, wkRaised, wkPc, wkRunning>>

scoreVars == <<scPath, scLines, scDef, scScore>>

factoryVars == <<_impls, fcDef, fcParts>>

selectVars == <<selStore, selPath, selSample, selThreshold, selResult>>

cookieVars == <<ckLines, ckParsed, ckCookies, ckRecords>>

leakVars ==
    <<lkArchive, lkFault, lkSettings, lkNext, lkSystems, lkOutcome, lkLeak, lkTrace>>

vars == <<scoreVars, factoryVars, selectVars, cookieVars, leakVars, truncateVars, vaultVars, configurableVars, exportVars, strategyVars, jarVars, daoVars, workerVars>>

NoScore == [num |-> 0, den |-> 0]

\* ------------------------------------------------------------------------
\* The inputs of the model
\* ------------------------------------------------------------------------
FieldsUserPass ==
    <<FieldDef("username", <<"user">>, <<"(?i)^username\\s*[:=]">>, ""),
      FieldDef("password", <<"pass">>, <<"(?i)^password\\s*[:=]">>, "")>>

FieldsAliasOnly == <<FieldDef("username", <<"user", "login">>, <<>>, "")>>

\* score_weights mappings a definition file can carry: the default, an empty
\* mapping, a partial one, and one with a negative weight (Dict[str, float]
\* takes any float)
WeightChoices ==
    {DefaultScoreWeights,
     <<>>,
     [k \in {"header"} |-> 6],
     [k \in {"path", "separator"} |-> IF k = "path" THEN -2 ELSE 2]}

ScoreDefinitions ==
    {RecordDefinition("credential", g, s, TRUE, <<>>, f, w) :
        g \in {<<>>, <<"**/passwords*.txt">>, <<"**/unlikely*.txt", "*">>},
        s \in {<<>>, <<"^-{2,}\\s*$", "^$">>},
        f \in {<<>>, FieldsUserPass, FieldsAliasOnly},
        w \in WeightChoices}

ScorePaths == {PathPasswords, PathPasswordsUpper}

\* sampled texts: runs of header, separator and alias-only lines, and no
\* plain line or a full run of them
SampleLines ==
    {Replicate(LineUser, a) \o Replicate(LineDash, b)
        \o Replicate(LineKV, c) \o Replicate(LineJunk, d) :
        a \in 0..MaxRun, b \in 0..MaxRun, c \in 0..MaxRun, d \in {0, MaxRun}}

\* ------------------------------------------------------------------------
\* score_definition as an operation
\* ------------------------------------------------------------------------
\* the values the state of an operation holds while another one is studied
ScoreIdle ==
    /\ scPath = ""
    /\ scLines = <<>>
    /\ scDef = RecordDefinition("", <<>>, <<>>, TRUE, <<>>, <<>>, DefaultScoreWeights)
    /\ scScore = NoScore

NoParts == [raised |-> "not called"]

FactoryIdle ==
    /\ _impls = EmptyImpls
    /\ fcDef = RecordDefinition("", <<>>, <<>>, TRUE, <<>>, <<>>, DefaultScoreWeights)
    /\ fcParts = NoParts

NotCalled == [kind |-> "not called"]

SelectIdle ==
    /\ selStore = NoStore
    /\ selPath = ""
    /\ selSample = <<>>
    /\ selThreshold = [num |-> 0, den |-> 1]
    /\ selResult = NotCalled

CookieIdle ==
    /\ ckLines = <<>>
    /\ ckParsed = FALSE
    /\ ckCookies = <<>>
    /\ ckRecords = <<>>

NoFault == [at |-> 0, kind |-> "none"]

LeakIdle ==
    /\ lkArchive = <<>>
    /\ lkFault = NoFault
    /\ lkSettings = [prefer_definition_parsers |-> TRUE,
                     parser_match_threshold |-> [num |-> 3, den |-> 10]]
    /\ lkNext = 1
    /\ lkSystems = <<>>
    /\ lkOutcome = "running"
    /\ lkLeak = <<>>
    /\ lkTrace = <<>>

NotReturned == [returned |-> FALSE]

TruncateIdle ==
    /\ tsValue = None
    /\ tsMaxLength = 0
    /\ tsResult = NotReturned

NotExtracted == [extracted |-> FALSE]

NoDoc == [kind |-> "none"]

VaultIdle ==
    /\ vtDoc = NoDoc
    /\ vtLines = <<>>
    /\ vtRaw = NotExtracted

NotBuilt == [kind |-> "not built"]

NotParsed == [parsed |-> FALSE]

\* the document of a definition file: the keys of the schema and, where the
\* file declares them, capability tags
DefinitionDoc(key, record_separators, multiline, fields, path_extractors, declared) ==
    [key |-> key, file_globs |-> <<>>, record_separators |-> record_separators,
     multiline |-> multiline, groups |-> <<>>, fields |-> fields,
     path_extractors |-> path_extractors, capabilities |-> declared]

ConfigurableIdle ==
    /\ cfDoc = DefinitionDoc("", <<>>, TRUE, <<>>, <<>>, <<>>)
    /\ cfFilename = None
    /\ cfLines = <<>>
    /\ cfParser = NotBuilt
    /\ cfRecords = NotParsed

NotExported == [exported |-> FALSE]

EmptyLeak == [kind |-> "ok", systems_data |-> <<>>]

ExportIdle ==
    /\ exLeak = EmptyLeak
    /\ exSink = [foreignKeys |-> FALSE, commitDrops |-> FALSE]
    /\ exResult = NotExported

NotChunked == [done |-> FALSE]

StrategyIdle ==
    /\ sgDef = None
    /\ sgLines = <<>>
    /\ sgChunks = NotChunked
    /\ sgRaws = NotChunked
    /\ sgRecords = NotChunked

NotWritten == [written |-> FALSE]

JarIdle ==
    /\ jrMatch = None
    /\ jrText = NotWritten
    /\ jrParsed = NotWritten

NotRun == [pc |-> "idle"]

DaoIdle ==
    /\ daoCall = None
    /\ daoRun = NotRun

WorkerIdle ==
    /\ wkQueue = <<>>
    /\ wkStatus = <<>>
    /\ wkDb = <<>>
    /\ wkFiles = {}
    /\ wkRuns = <<>>
    /\ wkRaised = {}
    /\ wkPc = "not started"
    /\ wkRunning = FALSE

ScoreInit ==
    /\ scPath \in ScorePaths
    /\ scLines \in SampleLines
    /\ scDef \in ScoreDefinitions
    /\ scScore = NoScore

ScoreDefinition ==
    /\ scScore = NoScore
    /\ scScore' = score_definition(scPath, scLines, scDef)
    /\ UNCHANGED <<scPath, scLines, scDef, factoryVars, selectVars, cookieVars, leakVars, truncateVars, vaultVars, configurableVars, exportVars, strategyVars, jarVars, daoVars, workerVars>>

InitScore == ScoreInit /\ FactoryIdle /\ SelectIdle /\ CookieIdle /\ LeakIdle /\ TruncateIdle /\ VaultIdle /\ ConfigurableIdle /\ ExportIdle /\ StrategyIdle /\ JarIdle /\ DaoIdle /\ WorkerIdle

SpecScore == InitScore /\ [][ScoreDefinition]_vars

\* ------------------------------------------------------------------------
\* Claims about score_definition
\* ------------------------------------------------------------------------
\* number of (line, pattern) pairs with pattern.search(line)
PairHits(lines, pats) ==
    Cardinality({ij \in (DOMAIN lines) \X (DOMAIN pats) :
                    Search(pats[ij[2]], lines[ij[1]])})

\* C8: the score is (w.path if a file glob matches, else 0) + w.separator *
\* separator matches + w.header * header matches + w.alias * alias matches,
\* over max(10, number of sampled lines), with the weights defaulting to
\* header 2.0, separator 1.0, alias 0.5, path 1.0 (4, 2, 1, 2 in halves);
\* the denominator is never below 10.
C8_ScoreFormula ==
    scScore # NoScore =>
        LET w == scDef.score_weights
            wHeader == IF "header" \in DOMAIN w THEN w["header"] ELSE 4
            wSeparator == IF "separator" \in DOMAIN w THEN w["separator"] ELSE 2
            wAlias == IF "alias" \in DOMAIN w THEN w["alias"] ELSE 1
            wPath == IF "path" \in DOMAIN w THEN w["path"] ELSE 2
            n == Len(scLines)
            c == compiled(scDef)
        IN /\ scScore.den = (IF n > 10 THEN n ELSE 10)
           /\ scScore.den >= 10
           /\ scScore.num =
                (IF \E i \in DOMAIN scDef.file_globs : fnmatch(scPath, scDef.file_globs[i])
                 THEN wPath ELSE 0)
                + wSeparator * PairHits(scLines, c.separators)
                + wHeader * PairHits(scLines, c.headers)
                + wAlias * PairHits(scLines, c.aliases)

\* C8 witness: a scored sample with a glob match, hits of all three kinds,
\* once with fewer than 10 lines (the floor applies)
C8_Witness ==
    /\ scScore # NoScore
    /\ AnyGlob(scPath, scDef.file_globs)
    /\ PairHits(scLines, compiled(scDef).separators) > 0
    /\ PairHits(scLines, compiled(scDef).headers) > 0
    /\ PairHits(scLines, compiled(scDef).aliases) > 0
    /\ Len(scLines) < 10
    /\ scScore.den = 10
    /\ scDef.score_weights = <<>>

\* the samples that differ from lines in one line only
OneLineChanged(lines) ==
    {[lines EXCEPT ![i] = ln] :
        i \in DOMAIN lines, ln \in {LineUser, LinePass, LineDash, LineKV, LineJunk}}

\* C9: the score is >= 0 for every accepted definition, and with the line
\* count fixed it does not decrease when a hit count (separator, header,
\* alias, path match) increases.
C9_ScoreNonNegativeMonotone ==
    scScore # NoScore =>
        /\ scScore.num >= 0
        /\ \A p2 \in ScorePaths : \A l2 \in OneLineChanged(scLines) \cup {scLines} :
            LET c == compiled(scDef)
                up(pats) == PairHits(l2, pats) >= PairHits(scLines, pats)
            IN (/\ up(c.separators) /\ up(c.headers) /\ up(c.aliases)
                /\ (AnyGlob(scPath, scDef.file_globs) => AnyGlob(p2, scDef.file_globs)))
               => ScoreGE(score_definition(p2, l2, scDef), scScore)

\* ------------------------------------------------------------------------
\* StrategyRegistry.register and ParserFactory.build_parts as operations
\* ------------------------------------------------------------------------
BuiltinStrategies ==
    {<<"Chunker", RegexSeparatorChunker>>, <<"Extractor", KVHeaderExtractor>>,
     <<"Transformer", AliasGroupingTransformer>>, <<"Chunker", LineChunker>>,
     <<"Extractor", DelimitedLineExtractor>>, <<"Chunker", FullFileChunker>>,
     <<"Extractor", VaultExtractor>>, <<"Transformer", VaultTransformer>>}

NumRegistered(impls) ==
    Len(impls["Chunker"]) + Len(impls["Extractor"]) + Len(impls["Transformer"])

\* definitions with every combination of the four capability tags
FactoryDefinitions ==
    {RecordDefinition("credential", <<>>, s, m, g, f, DefaultScoreWeights) :
        s \in {<<>>, <<"^$">>},
        m \in BOOLEAN,
        g \in {<<>>, [k \in {"login"} |-> <<"username", "password">>]},
        f \in {<<>>, FieldsUserPass, FieldsAliasOnly}}

FactoryInit ==
    /\ _impls = EmptyImpls
    /\ fcDef \in FactoryDefinitions
    /\ fcParts = NoParts

\* reg.register(iface, impl), in any order, before the first build_parts
Register ==
    /\ fcParts = NoParts
    /\ NumRegistered(_impls) < MaxRegistered
    /\ \E s \in BuiltinStrategies :
        /\ \A i \in DOMAIN _impls[s[1]] : _impls[s[1]][i][2] # s[2]
        /\ _impls' = register(_impls, s[1], s[2])
    /\ UNCHANGED <<fcDef, fcParts, scoreVars, selectVars, cookieVars, leakVars, truncateVars, vaultVars, configurableVars, exportVars, strategyVars, jarVars, daoVars, workerVars>>

BuildParts ==
    /\ fcParts = NoParts
    /\ fcParts' = build_parts(_impls, fcDef)
    /\ UNCHANGED <<_impls, fcDef, scoreVars, selectVars, cookieVars, leakVars, truncateVars, vaultVars, configurableVars, exportVars, strategyVars, jarVars, daoVars, workerVars>>

FactoryNext == Register \/ BuildParts

InitFactory == FactoryInit /\ ScoreIdle /\ SelectIdle /\ CookieIdle /\ LeakIdle /\ TruncateIdle /\ VaultIdle /\ ConfigurableIdle /\ ExportIdle /\ StrategyIdle /\ JarIdle /\ DaoIdle /\ WorkerIdle

SpecFactory == InitFactory /\ [][FactoryNext]_vars

\* ------------------------------------------------------------------------
\* Claims about the parser factory
\* ------------------------------------------------------------------------
PartOf(parts, iface) ==
    CASE iface = "Chunker" -> parts.chunker
      [] iface = "Extractor" -> parts.extractor
      [] iface = "Transformer" -> parts.transformer

\* C10: for each interface build_parts selects a registered implementation
\* whose capability set has the largest intersection with D.capabilities(),
\* and among those with that largest intersection the one registered first.
C10_BestOverlapFirstRegistered ==
    fcParts.raised = "" =>
        \A iface \in Interfaces :
            LET cands == _impls[iface]
                req == capabilities(fcDef)
                size(k) == Cardinality(req \cap cands[k][2].caps)
            IN \E i \in DOMAIN cands :
                /\ cands[i][2] = PartOf(fcParts, iface)
                /\ \A j \in DOMAIN cands : size(j) <= size(i)
                /\ \A j \in 1..(i - 1) : size(j) < size(i)

\* C10 witness: parts were built while two implementations of an interface
\* tied for the largest, non-empty intersection
C10_Witness ==
    /\ fcParts.raised = ""
    /\ \E i, j \in DOMAIN _impls["Chunker"] :
        LET req == capabilities(fcDef)
            size(k) == Cardinality(req \cap _impls["Chunker"][k][2].caps)
        IN /\ i < j
           /\ size(i) = size(j)
           /\ size(i) = 2
           /\ \A k \in DOMAIN _impls["Chunker"] : size(k) <= size(i)
           /\ fcParts.chunker = _impls["Chunker"][i][2]

\* ------------------------------------------------------------------------
\* ParserRegistry.find_best_for as an operation
\* ------------------------------------------------------------------------
\* test_definition_backed_selected_over_threshold
DefCredential ==
    RecordDefinition("credential", <<"**/passwords*.txt">>, <<"^-{2,}\\s*$", "^$">>,
                     TRUE, <<>>, FieldsUserPass, DefaultScoreWeights)

\* test_fallback_when_below_threshold
DefLowSignal ==
    RecordDefinition("credential", <<"**/unlikely*.txt">>, <<"^-----$">>, TRUE, <<>>,
                     <<FieldDef("username", <<>>, <<"^user:$">>, "")>>,
                     DefaultScoreWeights)

\* a definition file with a negative path weight
DefNegativePath ==
    RecordDefinition("cookie", <<"*">>, <<>>, TRUE, <<>>, FieldsAliasOnly,
                     [k \in {"path"} |-> -2])

\* a second definition file for the same files under another key
DefLogin ==
    RecordDefinition("login", <<"**/passwords*.txt">>, <<"^-{2,}\\s*$", "^$">>,
                     TRUE, <<>>, FieldsUserPass, DefaultScoreWeights)

SelectDefinitions == {DefCredential, DefLowSignal, DefNegativePath}

SelectStores ==
    {NoStore, DefinitionStore(<<>>)}
    \cup {DefinitionStore(<<d>>) : d \in SelectDefinitions}
    \cup {DefinitionStore(<<d, e>>) : d \in SelectDefinitions, e \in SelectDefinitions}
    \cup {DefinitionStore(<<DefCredential, DefLogin>>),
          DefinitionStore(<<DefLogin, DefCredential>>)}

SelectPaths == {PathPasswords, PathCookies, PathSysInfo, PathNotes, PathCookiePasswords}

\* sample texts, two of them of LongFile lines
SelectSamples ==
    {<<>>, <<LineUser, LinePass>>, <<LineJunk>>,
     Replicate(LineJunk, LongFile), Replicate(LineUser, LongFile)}

\* thresholds 0, 0.1, 0.15 and 0.99
SelectThresholds ==
    {[num |-> 0, den |-> 1], [num |-> 2, den |-> 10],
     [num |-> 3, den |-> 10], [num |-> 198, den |-> 100]}

SelectInit ==
    /\ selStore \in SelectStores
    /\ selPath \in SelectPaths
    /\ selSample \in SelectSamples
    /\ selThreshold \in SelectThresholds
    /\ selResult = NotCalled

FindBestFor ==
    /\ selResult = NotCalled
    /\ selResult' = find_best_for(selStore, ParserFactory(ContainerImpls), selPath, selSample,
                                  selThreshold)
    /\ UNCHANGED <<selStore, selPath, selSample, selThreshold, scoreVars, factoryVars, cookieVars, leakVars, truncateVars, vaultVars, configurableVars, exportVars, strategyVars, jarVars, daoVars, workerVars>>

InitSelect == SelectInit /\ ScoreIdle /\ FactoryIdle /\ CookieIdle /\ LeakIdle /\ TruncateIdle /\ VaultIdle /\ ConfigurableIdle /\ ExportIdle /\ StrategyIdle /\ JarIdle /\ DaoIdle /\ WorkerIdle

SpecSelect == InitSelect /\ [][FindBestFor]_vars

\* ------------------------------------------------------------------------
\* Claims about parser selection
\* ------------------------------------------------------------------------
HasDefinitions == selStore.present /\ selStore.defs # <<>>

\* the scores of the definitions of the store, from the i-th on, on the
\* first 200 lines of the sample
RECURSIVE StoreScores(_)
StoreScores(i) ==
    IF i > Len(selStore.defs) THEN <<>>
    ELSE <<score_definition(selPath, SubSeq(selSample, 1, Min(200, Len(selSample))),
                            selStore.defs[i])>> \o StoreScores(i + 1)

IsMaxScore(scores, i) == \A j \in DOMAIN scores : ScoreGE(scores[i], scores[j])

\* the legacy parser whose filename pattern matches the path, if any
LegacyFallback(result) ==
    \/ result.kind = "CookieParser" /\ ContainsIgnoreCase(selPath, "cookie")
    \/ result.kind = "PasswordParser" /\ ContainsIgnoreCase(selPath, "password")
    \/ result.kind = "SystemParser" /\ SystemPattern(selPath)
    \/ /\ result.kind = "None"
       /\ ~ContainsIgnoreCase(selPath, "cookie")
       /\ ~ContainsIgnoreCase(selPath, "password")
       /\ ~SystemPattern(selPath)

\* the first part of C1: a definition-backed parser built from a definition
\* of maximum score is returned iff that maximum score is >= threshold;
\* otherwise the legacy parser matching the path, or no parser
C1_SelectionRule ==
    (selResult # NotCalled /\ HasDefinitions) =>
        LET scores == StoreScores(1)
            clears == \E i \in DOMAIN scores :
                        IsMaxScore(scores, i) /\ ScoreGE(scores[i], selThreshold)
        IN /\ clears <=>
                /\ selResult.kind = "ConfigurableParser"
                /\ \E i \in DOMAIN scores :
                        IsMaxScore(scores, i) /\ selResult.definition = selStore.defs[i]
           /\ ~clears => LegacyFallback(selResult)

\* C1: the selection rule above, and so with threshold 0 the highest-scoring
\* definition is always selected, even for a 1000-line file.
C1_SelectionWithZeroThreshold ==
    /\ C1_SelectionRule
    /\ (selResult # NotCalled /\ HasDefinitions /\ selThreshold.num = 0) =>
            selResult.kind = "ConfigurableParser"

\* the result is the parser of the first definition of the store whose
\* score is the highest, if that score is >= the threshold
FirstOfTies(scores) ==
    \A i \in DOMAIN scores :
        (/\ IsMaxScore(scores, i)
         /\ ScoreGE(scores[i], selThreshold)
         /\ \A j \in 1..(i - 1) : ~IsMaxScore(scores, j))
            => /\ selResult.kind = "ConfigurableParser"
               /\ selResult.definition = selStore.defs[i]

\* C27: when several definitions have the highest score and it is >= the
\* threshold, find_best_for returns the parser of the one of them that is
\* first in the list load_all() returned.
C27_FirstOfTiesSelected ==
    (selResult # NotCalled /\ HasDefinitions) => FirstOfTies(StoreScores(1))

\* C27, witness: two definitions of different keys with the same score above
\* the threshold, and the parser of the first of them
C27_Witness ==
    /\ selResult # NotCalled
    /\ Len(selStore.defs) = 2
    /\ selStore.defs[1].key # selStore.defs[2].key
    /\ StoreScores(1)[1] = StoreScores(1)[2]
    /\ StoreScores(1)[1].num > 0
    /\ ScoreGE(StoreScores(1)[1], selThreshold)
    /\ selResult.kind = "ConfigurableParser"
    /\ selResult.definition = selStore.defs[1]

\* ------------------------------------------------------------------------
\* CookieParser.parse and the LineChunker / DelimitedLineExtractor pair as
\* operations on the lines of a cookie file
\* ------------------------------------------------------------------------
MaxFileLines == 2

\* k fields "v" joined by sep, the last one being last
RECURSIVE FieldLine(_, _, _)
FieldLine(k, sep, last) ==
    IF k <= 1 THEN last ELSE "v" \o sep \o FieldLine(k - 1, sep, last)

\* lines of one field, of one field less and one more than a cookie has, and
\* of as many; tab- and blank-separated, with and without a leading "#" and
\* a blank inside the last field
GeneratedCookieLines ==
    {prefix \o FieldLine(k, sep, last) :
        prefix \in {"", "#"},
        k \in {1, CookieFieldCount - 1, CookieFieldCount, CookieFieldCount + 1},
        sep \in {"\t", " "},
        last \in {"v", "v w"}}

LineNetscapeCookie == ".example.com\tTRUE\t/\tFALSE\t1735689600\tsid\tabc123"
LineHttpOnlyCookie == "#HttpOnly_.example.com\tTRUE\t/\tFALSE\t0\tsid\tabc"
LineNetscapeHeader == "# Netscape HTTP Cookie File"
LineGeneratedHeader == "# This is a generated file!  Do not edit."
LineFourFields == "malformed line with four"
LineMixedSeparators == "a b\tc d\te f\tg"

CookieFileLines ==
    GeneratedCookieLines
    \cup {"", LineNetscapeCookie, LineHttpOnlyCookie, LineNetscapeHeader,
          LineGeneratedHeader, LineFourFields, LineMixedSeparators}

CookieInit ==
    /\ ckLines \in UNION {[1..n -> CookieFileLines] : n \in 0..MaxFileLines}
    /\ ckParsed = FALSE
    /\ ckCookies = <<>>
    /\ ckRecords = <<>>

RECURSIVE ExtractAll(_)
ExtractAll(chunks) ==
    IF chunks = <<>> THEN <<>>
    ELSE <<DelimitedLineExtractor_extract(Head(chunks))>> \o ExtractAll(Tail(chunks))

CookieParse ==
    /\ ~ckParsed
    /\ ckParsed' = TRUE
    /\ ckCookies' = CookieParser_parse(ckLines, "chrome", "Default", PathCookies)
    /\ ckRecords' = ExtractAll(LineChunker_chunk(ckLines))
    /\ UNCHANGED <<ckLines, scoreVars, factoryVars, selectVars, leakVars, truncateVars, vaultVars, configurableVars, exportVars, strategyVars, jarVars, daoVars, workerVars>>

InitCookie == CookieInit /\ ScoreIdle /\ FactoryIdle /\ SelectIdle /\ LeakIdle /\ TruncateIdle /\ VaultIdle /\ ConfigurableIdle /\ ExportIdle /\ StrategyIdle /\ JarIdle /\ DaoIdle /\ WorkerIdle

SpecCookie == InitCookie /\ [][CookieParse]_vars

\* ------------------------------------------------------------------------
\* Claims about cookie lines
\* ------------------------------------------------------------------------
NumTabs(ln) == Cardinality({i \in 1..Len(ln) : Char(ln, i) = "\t"})

\* the maximal runs of blanks and tabs of ln
NumSpaceRuns(ln) ==
    Cardinality({i \in 1..Len(ln) :
                    /\ Char(ln, i) \in {" ", "\t"}
                    /\ (i = 1 \/ Char(ln, i - 1) \notin {" ", "\t"})})

\* splitting on tab gives seven fields: six tabs; splitting on whitespace
\* at most six times gives seven fields: six runs of whitespace or more
SevenFields(ln) == NumTabs(ln) = 6 \/ NumSpaceRuns(ln) >= 6

RECURSIVE NoSpace(_)
NoSpace(s) ==
    IF s = "" THEN ""
    ELSE (IF Char(s, 1) \in {" ", "\t"} THEN "" ELSE Char(s, 1))
         \o NoSpace(SubSeq(s, 2, Len(s)))

\* the seven values are the seven fields of ln
IsSplitOf(f, ln) ==
    IF NumTabs(ln) = 6
    THEN f[1] \o "\t" \o f[2] \o "\t" \o f[3] \o "\t" \o f[4] \o "\t" \o f[5]
            \o "\t" \o f[6] \o "\t" \o f[7] = ln
    ELSE /\ \A k \in 1..6 : NoSpace(f[k]) = f[k]
         /\ EndsWith(ln, f[7])
         /\ NoSpace(f[1] \o f[2] \o f[3] \o f[4] \o f[5] \o f[6] \o f[7]) = NoSpace(ln)

RawValues(raw) == [i \in 1..7 |-> raw[i][2]]

CookieValues(c) ==
    <<c.domain, c.domain_specified, c.path, c.secure, c.expiry, c.name, c.value>>

\* the cookies returned are, in order, the splits of the lines that satisfy
\* Produces, and so are the non-empty mappings of the extractor
CookiesAreLinesThat(Produces(_)) ==
    LET from == SelectSeq(ckLines, Produces)
        IsFull(raw) == raw # <<>>
        full == SelectSeq(ckRecords, IsFull)
    IN /\ Len(ckCookies) = Len(from)
       /\ \A j \in DOMAIN ckCookies : IsSplitOf(CookieValues(ckCookies[j]), from[j])
       /\ Len(full) = Len(from)
       /\ \A j \in DOMAIN full : IsSplitOf(RawValues(full[j]), from[j])

\* C7 as stated: a line of a cookie file produces a cookie if and only if
\* it has seven fields on tab or, failing that, on whitespace with at most
\* six splits; every other line is dropped and changes nothing else.
C7_CookieIffSevenFields ==
    ckParsed => CookiesAreLinesThat(SevenFields)

NotSkippedSevenFields(ln) == ln # "" /\ Char(ln, 1) # "#" /\ SevenFields(ln)

\* C7: a line that is not empty and does not start with "#" produces a
\* cookie if and only if it has seven fields on tab or, failing that, on
\* whitespace with at most six splits; empty lines, lines starting with "#"
\* and every other line are dropped and change nothing about the cookies of
\* the other lines.
C7_CookieIffSevenFieldsAndNoComment ==
    ckParsed => CookiesAreLinesThat(NotSkippedSevenFields)

\* a header comment of seven whitespace fields, dropped, before a line that
\* gives a cookie by the whitespace split
C7_Witness ==
    /\ ckParsed
    /\ Len(ckLines) = 2
    /\ ckLines[1] = LineGeneratedHeader
    /\ NumTabs(ckLines[2]) # 6
    /\ Len(ckCookies) = 1

IsDigit(c) == c \in {"0", "1", "2", "3", "4", "5", "6", "7", "8", "9"}

\* a non-empty string of decimal digits
IsDigits(s) == s # "" /\ \A i \in 1..Len(s) : IsDigit(Char(s, i))

WellFormedCookieFields(f) ==
    /\ Len(f) = CookieFieldCount
    /\ f[4] \in {"TRUE", "FALSE"}
    /\ IsDigits(f[5])

\* C20: every cookie CookieParser.parse returns and every mapping
\* DelimitedLineExtractor.extract returns has the seven Netscape fields, a
\* secure field that is exactly TRUE or FALSE and an expiry field that is a
\* string of decimal digits; no other line is surfaced as a cookie.
C20_SurfacedCookiesAreWellFormed ==
    /\ \A j \in DOMAIN ckCookies : WellFormedCookieFields(CookieValues(ckCookies[j]))
    /\ \A j \in DOMAIN ckRecords :
            ckRecords[j] # EmptyDict =>
                /\ Keys(ckRecords[j]) = CookieKeys
                /\ WellFormedCookieFields(RawValues(ckRecords[j]))

\* ------------------------------------------------------------------------
\* LeakProcessor.process_leak as operations: one per turn of the loop over
\* archive.namelist(), one for the return, one for namelist() raising
\* ------------------------------------------------------------------------
MaxEntries == 2

SampleCharLimit == 12000

\* text[:limit].splitlines() for a text given by its lines, each line ended
\* by a newline
RECURSIVE TruncateChars(_, _)
TruncateChars(lines, limit) ==
    IF lines = <<>> \/ limit <= 0 THEN <<>>
    ELSE IF Len(Head(lines)) >= limit THEN <<SubSeq(Head(lines), 1, limit)>>
    ELSE <<Head(lines)>> \o TruncateChars(Tail(lines), limit - Len(Head(lines)) - 1)

\* System(): every field None (models/system.py is not among the sources;
\* the fields are those SystemParser maps to)
System ==
    [machine_id |-> None, computer_name |-> None, hardware_id |-> None,
     machine_user |-> None, ip_address |-> None, country |-> None,
     log_date |-> None]

\* systems[system_dir] = SystemData(system=System()); key is the dict key
SystemData(system_dir) ==
    [key |-> system_dir, system |-> System, credentials |-> <<>>,
     cookies |-> <<>>, vaults |-> <<>>]

\* the definitions the registry of the processor loads
DefCookieKV ==
    RecordDefinition("cookie", <<"*Cookies*">>, <<"^$">>, TRUE, <<>>,
        <<FieldDef("domain", <<>>, <<"(?i)^domain\\s*[:=]">>, ""),
          FieldDef("name", <<>>, <<"(?i)^name\\s*[:=]">>, ""),
          FieldDef("value", <<>>, <<"(?i)^value\\s*[:=]">>, "")>>,
        DefaultScoreWeights)

DefVaultKV ==
    RecordDefinition("vault", <<"*.log">>, <<>>, TRUE, <<>>, FieldsUserPass,
                     DefaultScoreWeights)

LeakStore == DefinitionStore(<<DefCredential, DefCookieKV, DefVaultKV>>)

\* lines 48-57: the parser of an entry; fault is what raises for this entry
Selected(preferred, file_path) ==
    IF preferred = NoParser THEN get_parser(file_path) ELSE preferred

NoneIfRaised(found) == IF found.kind = "raise" THEN NoParser ELSE found

SelectParser(file_path, text, fault, settings) ==
    Selected(IF settings.prefer_definition_parsers /\ fault \notin {"read", "select"}
             THEN NoneIfRaised(find_best_for(LeakStore, ParserFactory(ContainerImpls),
                                    Path(file_path),
                                    TruncateChars(text, SampleCharLimit),
                                    settings.parser_match_threshold))
             ELSE NoParser,
             file_path)

\* the place of a record: the index of its entry in namelist() and its index
\* in the list the parser returned (not a field of the program's objects)
Origin(i, j) == [origin |-> <<i, j>>]

\* the vaults and the cookies the loop of lines 95-137 makes of the records
\* of a ConfigurableParser, from the j-th on
RECURSIVE VaultsOf(_, _, _, _)
VaultsOf(recs, file_path, i, j) ==
    IF j > Len(recs) THEN <<>>
    ELSE (IF recs[j].type = "vault"
          THEN <<VaultOf(recs[j], file_path) @@ Origin(i, j)>> ELSE <<>>)
         \o VaultsOf(recs, file_path, i, j + 1)

RECURSIVE CookiesOf(_, _, _, _)
CookiesOf(recs, file_path, i, j) ==
    IF j > Len(recs) THEN <<>>
    ELSE (IF recs[j].type = "cookie" /\ recs[j].fields # EmptyDict
          THEN <<CookieOf(recs[j], file_path) @@ Origin(i, j)>> ELSE <<>>)
         \o CookiesOf(recs, file_path, i, j + 1)

\* setattr(system_data.system, key, value) for every item of every dict of
\* sys_results, when the System has the key
RECURSIVE SetAttrs(_, _)
SetAttrs(system, infos) ==
    IF infos = <<>> THEN system
    ELSE LET info == Head(infos)
         IN SetAttrs(IF info # <<>> /\ info[1] \in DOMAIN system
                     THEN [system EXCEPT ![info[1]] = info[2]] ELSE system,
                     Tail(infos))

\* the records of a parser with their places, and what the trace keeps of
\* them
Tagged(results, i) == [j \in DOMAIN results |-> results[j] @@ Origin(i, j)]

Emitted(results, type, i) ==
    [j \in DOMAIN results |-> [type |-> type, origin |-> <<i, j>>]]

EmittedTypes(results, i) ==
    [j \in DOMAIN results |-> [type |-> results[j].type, origin |-> <<i, j>>]]

\* lines 76-78
CookieBranch(system_data, cookie_results, i) ==
    [emitted |-> Emitted(cookie_results, "cookie", i),
     data |-> [system_data EXCEPT !.cookies = @ \o Tagged(cookie_results, i)]]

\* lines 80-82 with insert(0, cred) for append(cred)
PasswordBranch_prepending(system_data, cred_results, i) ==
    [emitted |-> Emitted(cred_results, "credential", i),
     data |-> [system_data EXCEPT !.credentials = Tagged(cred_results, i) \o @]]

\* lines 80-82
PasswordBranch(system_data, cred_results, i) ==
    [emitted |-> Emitted(cred_results, "credential", i),
     data |-> [system_data EXCEPT !.credentials = @ \o Tagged(cred_results, i)]]

\* lines 84-89
SystemBranch(system_data, sys_results, i) ==
    [emitted |-> Emitted(sys_results, "system", i),
     data |-> [system_data EXCEPT !.system = SetAttrs(@, sys_results)]]

\* lines 92-137
ConfigurableBranch(system_data, generic_results, file_path, i) ==
    [emitted |-> EmittedTypes(generic_results, i),
     data |-> [system_data EXCEPT
                !.vaults = @ \o VaultsOf(generic_results, file_path, i, 1),
                !.cookies = @ \o CookiesOf(generic_results, file_path, i, 1)]]

\* lines 69-137 for the i-th entry: what the parser returned (type tag and
\* place of each record) and system_data afterwards
Parsed(parser, system_data, file_path, text, i) ==
    CASE parser.kind = "CookieParser" ->
            CookieBranch(system_data,
                         CookieParser_parse(text, _infer_browser(file_path),
                                            _infer_profile(file_path), file_path), i)
      [] parser.kind = "PasswordParser" ->
            PasswordBranch(system_data, PasswordParser_parse(text), i)
      [] parser.kind = "SystemParser" ->
            SystemBranch(system_data, SystemParser_parse(text), i)
      [] parser.kind = "ConfigurableParser" ->
            ConfigurableBranch(system_data,
                               ConfigurableParser_parse(parser, text, file_path),
                               file_path, i)

\* the index of the system of a key in the list of systems, 0 if none
SystemAt(systems, system_dir) ==
    IF \E k \in DOMAIN systems : systems[k].key = system_dir
    THEN CHOOSE k \in DOMAIN systems : systems[k].key = system_dir ELSE 0

\* lines 63-64 without the test "system_dir not in systems"
WithSystem_always_new(systems, system_dir) == Append(systems, SystemData(system_dir))

\* lines 63-64: the dict systems with the system of system_dir
WithSystem(systems, system_dir) ==
    IF SystemAt(systems, system_dir) = 0
    THEN Append(systems, SystemData(system_dir)) ELSE systems

TraceOf(i, parser, emitted, logged) ==
    [at |-> i, parser |-> parser, emitted |-> emitted, logged |-> logged]

\* lines 68-143, done being what lines 69-137 gave
Stored(created, at, done, parser, i) ==
    [systems |-> [created EXCEPT ![at] = done.data],
     trace |-> TraceOf(i, parser.kind, done.emitted, "")]

\* lines 61-143 with the parser chosen; created is systems after line 64
ParseInto(created, at, entry, fault, i, parser) ==
    IF fault \in {"read", "parse"}
    THEN [systems |-> created, trace |-> TraceOf(i, parser.kind, <<>>, fault)]
    ELSE Stored(created, at, Parsed(parser, created[at], entry.name, entry.text, i),
                parser, i)

\* lines 44-143 with the System created only after the entry was read and parsed
Turn_system_after_parse(systems, entry, fault, i, parser) ==
    IF EndsWith(entry.name, "/") \/ parser = NoParser \/ fault \in {"read", "parse"}
    THEN [systems |-> systems,
          trace |-> TraceOf(i, IF EndsWith(entry.name, "/") THEN ""
                               ELSE IF parser = NoParser THEN "None" ELSE parser.kind,
                            <<>>, IF parser = NoParser THEN "" ELSE fault)]
    ELSE ParseInto(WithSystem(systems, _get_system_dir(entry.name)),
                   SystemAt(WithSystem(systems, _get_system_dir(entry.name)),
                            _get_system_dir(entry.name)),
                   entry, fault, i, parser)

\* lines 44-45 and 58-143 with the parser chosen
Turn(systems, entry, fault, i, parser) ==
    IF EndsWith(entry.name, "/")
    THEN [systems |-> systems, trace |-> TraceOf(i, "", <<>>, "")]
    ELSE IF parser = NoParser
    THEN [systems |-> systems, trace |-> TraceOf(i, "None", <<>>, "")]
    ELSE ParseInto(WithSystem(systems, _get_system_dir(entry.name)),
                   SystemAt(WithSystem(systems, _get_system_dir(entry.name)),
                            _get_system_dir(entry.name)),
                   entry, fault, i, parser)

\* one turn of the loop (lines 43-143) for the i-th entry: the dict systems
\* afterwards and what happened
LoopBody(systems, entry, fault, settings, i) ==
    Turn(systems, entry, fault, i,
         SelectParser(entry.name, entry.text, fault, settings))

\* the entries an archive of the model is made of
PathCookiesKV == "VICTIM1/Cookies/Edge_Default.txt"

\* a vault log that is under no Wallets directory
PathVaultLog == "VICTIM2/Brave/Profile 1/vault.log"

TextSoftBlocks ==
    <<"Soft: Chrome", "Host: https://a.example/login", "Login: alice",
      "Password: secret", "", "Soft: Edge", "Host: b.example", "Login: bob",
      "Password: hunter2">>

TextNetscape ==
    <<LineNetscapeHeader, LineGeneratedHeader, LineNetscapeCookie, LineFourFields,
      "b.example TRUE / FALSE 0 id 42">>

TextCookiesKV ==
    <<"domain: .example.com", "name: sid", "value: abc", "",
      "domain: b.example", "name: id", "value: 42">>

TextSysInfo == <<"UID: 123", "Computer Name: PC-1", "IP: 1.2.3.4", "Country: US">>

TextWallet == <<LineUser, LinePass>>

Entry(name, text) == [name |-> name, text |-> text]

ArchiveEntries ==
    {Entry(PathPasswords, TextSoftBlocks),
     Entry(PathCookies, TextNetscape),
     Entry(PathCookiesKV, TextCookiesKV),
     Entry(PathSysInfo, TextSysInfo),
     Entry(PathWallet, TextWallet),
     Entry(PathVaultLog, TextWallet),
     Entry(PathRootPasswords, TextSoftBlocks),
     Entry(PathDirMarker, <<>>)}

\* what can raise: archive.read_file, find_best_for or parser.parse for one
\* entry, or archive.namelist() (BadRarFile, or RuntimeError for a closed
\* archive)
EntryFaults == {"read", "select", "parse"}

ArchiveFaults == {"BadRarFile", "RuntimeError"}

Faults(archive) ==
    {NoFault}
    \cup {[at |-> 0, kind |-> k] : k \in ArchiveFaults}
    \cup {[at |-> i, kind |-> k] : i \in DOMAIN archive, k \in EntryFaults}

LeakInit ==
    /\ lkArchive \in UNION {[1..n -> ArchiveEntries] : n \in 0..MaxEntries}
    /\ lkFault \in Faults(lkArchive)
    /\ lkSettings \in {[prefer_definition_parsers |-> b,
                        parser_match_threshold |-> [num |-> 3, den |-> 10]] :
                            b \in BOOLEAN}
    /\ lkNext = 1
    /\ lkSystems = <<>>
    /\ lkOutcome = "running"
    /\ lkLeak = <<>>
    /\ lkTrace = <<>>

\* the state after a turn of the loop
Turned(turn) ==
    /\ lkSystems' = turn.systems
    /\ lkTrace' = Append(lkTrace, turn.trace)

\* one turn of "for file_path in archive.namelist()"
ProcessEntry ==
    /\ lkOutcome = "running"
    /\ lkFault.kind \notin ArchiveFaults
    /\ lkNext <= Len(lkArchive)
    /\ Turned(LoopBody(lkSystems, lkArchive[lkNext],
                       IF lkFault.at = lkNext THEN lkFault.kind ELSE "none",
                       lkSettings, lkNext))
    /\ lkNext' = lkNext + 1
    /\ UNCHANGED <<lkArchive, lkFault, lkSettings, lkOutcome, lkLeak>>
    /\ UNCHANGED <<scoreVars, factoryVars, selectVars, cookieVars, truncateVars, vaultVars, configurableVars, exportVars, strategyVars, jarVars, daoVars, workerVars>>

\* lines 145-154: after the loop, the values of systems go to leak.systems
\* and the leak is returned
ReturnLeak ==
    /\ lkOutcome = "running"
    /\ lkFault.kind \notin ArchiveFaults
    /\ lkNext > Len(lkArchive)
    /\ lkLeak' = lkSystems
    /\ lkOutcome' = "returned"
    /\ UNCHANGED <<lkArchive, lkFault, lkSettings, lkNext, lkSystems, lkTrace>>
    /\ UNCHANGED <<scoreVars, factoryVars, selectVars, cookieVars, truncateVars, vaultVars, configurableVars, exportVars, strategyVars, jarVars, daoVars, workerVars>>

\* lines 148-154: namelist() raises; BadRarFile is raised again, a
\* RuntimeError is logged and the leak returned as it is
NamelistRaises ==
    /\ lkOutcome = "running"
    /\ lkFault.kind \in ArchiveFaults
    /\ lkOutcome' = IF lkFault.kind = "BadRarFile" THEN "BadRarFile" ELSE "returned"
    /\ UNCHANGED <<lkArchive, lkFault, lkSettings, lkNext, lkSystems, lkLeak, lkTrace>>
    /\ UNCHANGED <<scoreVars, factoryVars, selectVars, cookieVars, truncateVars, vaultVars, configurableVars, exportVars, strategyVars, jarVars, daoVars, workerVars>>

LeakNext == ProcessEntry \/ ReturnLeak \/ NamelistRaises

InitLeak == LeakInit /\ ScoreIdle /\ FactoryIdle /\ SelectIdle /\ CookieIdle /\ TruncateIdle /\ VaultIdle /\ ConfigurableIdle /\ ExportIdle /\ StrategyIdle /\ JarIdle /\ DaoIdle /\ WorkerIdle

SpecLeak == InitLeak /\ [][LeakNext]_vars

\* ------------------------------------------------------------------------
\* Claims on process_leak
\* ------------------------------------------------------------------------
\* the first path segment of an entry name, "" for a name with no "/"
FirstSegment(name) ==
    IF \A k \in 1..Len(name) : Char(name, k) # "/" THEN ""
    ELSE SubSeq(name, 1, (CHOOSE k \in 1..Len(name) :
                            /\ Char(name, k) = "/"
                            /\ \A m \in 1..(k - 1) : Char(name, m) # "/") - 1)

\* the collection of a System a type tag names
Collection(system_data, type) ==
    CASE type = "credential" -> system_data.credentials
      [] type = "cookie" -> system_data.cookies
      [] type = "vault" -> system_data.vaults
      [] OTHER -> <<>>

CollectionTags == {"credential", "cookie", "vault", "user_file"}

HoldsRecord(records, origin) == \E k \in DOMAIN records : records[k].origin = origin

\* the record a parser returned for the t-th entry is in the collection of
\* its tag in the System of the entry's first path segment
Landed(systems, t, rec) ==
    \E s \in DOMAIN systems :
        /\ systems[s].key = FirstSegment(lkArchive[t].name)
        /\ HoldsRecord(Collection(systems[s], rec.type), rec.origin)

AllLanded(systems, t) ==
    \A e \in DOMAIN lkTrace[t].emitted :
        lkTrace[t].emitted[e].type \in CollectionTags
            => Landed(systems, t, lkTrace[t].emitted[e])

\* C2: every record a parser returned for an entry, of a definition-backed
\* parser as of a legacy one, that is tagged credential, cookie, vault or
\* user_file is in the collection of that tag of the System owning the entry;
\* none is discarded.
C2_EveryTaggedRecordLands == \A t \in DOMAIN lkTrace : AllLanded(lkSystems, t)

Records(system_data) ==
    Range(system_data.credentials) \cup Range(system_data.cookies)
        \cup Range(system_data.vaults)

\* C3: in the Leak process_leak returns there is at most one System for a
\* key, every key is the first path segment of an entry, every entry a parser
\* was found for has the System of its first path segment, every record is in
\* the System of the first path segment of its entry (the empty key for a
\* name with no "/"), and an archive with no entries gives no System.
C3_SystemsKeyedByFirstSegment ==
    lkOutcome = "returned" =>
        /\ \A s, t \in DOMAIN lkLeak : lkLeak[s].key = lkLeak[t].key => s = t
        /\ \A s \in DOMAIN lkLeak : \E i \in DOMAIN lkArchive :
                lkLeak[s].key = FirstSegment(lkArchive[i].name)
        /\ \A i \in DOMAIN lkTrace :
                lkTrace[i].parser \notin {"", "None"}
                    => \E s \in DOMAIN lkLeak :
                            lkLeak[s].key = FirstSegment(lkArchive[i].name)
        /\ \A s \in DOMAIN lkLeak : \A rec \in Records(lkLeak[s]) :
                FirstSegment(lkArchive[rec.origin[1]].name) = lkLeak[s].key
        /\ lkArchive = <<>> => lkLeak = <<>>

\* C3, witness: two entries of different names and the same first path
\* segment, both parsed, and a Leak of one System holding records of both
C3_Witness ==
    /\ lkOutcome = "returned"
    /\ Len(lkArchive) = 2
    /\ lkArchive[1].name # lkArchive[2].name
    /\ FirstSegment(lkArchive[1].name) = FirstSegment(lkArchive[2].name)
    /\ Len(lkLeak) = 1
    /\ \A i \in 1..2 : \E rec \in Records(lkLeak[1]) : rec.origin[1] = i

\* C4: every Credential, Cookie and Vault in a System has the name of the
\* entry it was parsed from as its filepath, and the first path segment of
\* the filepath is the key of the System.
C4_FilepathIsEntryName ==
    \A s \in DOMAIN lkSystems : \A rec \in Records(lkSystems[s]) :
        /\ rec.filepath # None
        /\ rec.filepath = lkArchive[rec.origin[1]].name
        /\ FirstSegment(rec.filepath) = lkSystems[s].key

\* read_file, find_best_for or parse has raised for the entry of lkFault
FaultRaised ==
    /\ lkFault.at \in DOMAIN lkTrace
    /\ \/ lkTrace[lkFault.at].logged # ""
       \/ /\ lkFault.kind = "select"
          /\ lkSettings.prefer_definition_parsers
          /\ ~EndsWith(lkArchive[lkFault.at].name, "/")

\* C5: when reading, selection or parsing of one entry has raised,
\* process_leak does not raise, takes every later entry, and the Leak it
\* returns holds every record the parsers returned for the other entries.
C5_FailureOfOneEntryIsTolerated ==
    FaultRaised =>
        /\ lkOutcome \in {"running", "returned"}
        /\ lkOutcome = "returned" =>
              /\ Len(lkTrace) = Len(lkArchive)
              /\ \A t \in DOMAIN lkTrace : t # lkFault.at => AllLanded(lkLeak, t)

OriginBefore(a, b) == a[1] < b[1] \/ (a[1] = b[1] /\ a[2] < b[2])

InOrder(records) ==
    \A k, m \in DOMAIN records :
        k < m => OriginBefore(records[k].origin, records[m].origin)

\* C6: in every collection of every System of the returned Leak the records
\* are in the order of their entries in namelist(), and those of one entry in
\* the order the parser returned them.
C6_RecordsInEnumerationOrder ==
    lkOutcome = "returned" =>
        \A s \in DOMAIN lkLeak :
            /\ InOrder(lkLeak[s].credentials)
            /\ InOrder(lkLeak[s].cookies)
            /\ InOrder(lkLeak[s].vaults)

\* C6, witness: a collection of four records, two of the first entry and
\* then two of the second
C6_Witness ==
    /\ lkOutcome = "returned"
    /\ \E s \in DOMAIN lkLeak :
          /\ Len(lkLeak[s].credentials) = 4
          /\ lkLeak[s].credentials[2].origin = <<1, 2>>
          /\ lkLeak[s].credentials[3].origin = <<2, 1>>


\* ------------------------------------------------------------------------
\* database/postgres.py: truncate_string as an operation
\* ------------------------------------------------------------------------
MaxValueLen == 5

MaxColumn == 6

EllipsisLen == 3

\* value[:n] of Python: the first n characters, all but the last -n of them
\* for a negative n
SlicePrefix(value, n) ==
    IF n >= 0 THEN SubSeq(value, 1, Min(n, Len(value)))
    ELSE SubSeq(value, 1, Max(Len(value) + n, 0))

\* truncate_string(value, max_length)
truncate_string(value, max_length) ==
    IF value = None THEN None
    ELSE IF Len(value) <= max_length THEN value
    ELSE SlicePrefix(value, max_length - EllipsisLen) \o "..."

RECURSIVE StringsOver(_, _)
StringsOver(alphabet, n) ==
    IF n = 0 THEN {""}
    ELSE LET shorter == StringsOver(alphabet, n - 1)
         IN shorter \cup {s \o c : s \in shorter, c \in alphabet}

TruncateValues == {None} \cup StringsOver({"a", "."}, MaxValueLen)

TruncateInit ==
    /\ tsValue \in TruncateValues
    /\ tsMaxLength \in 0..MaxColumn
    /\ tsResult = NotReturned

TruncateString ==
    /\ tsResult = NotReturned
    /\ tsResult' = [returned |-> TRUE, value |-> truncate_string(tsValue, tsMaxLength)]
    /\ UNCHANGED <<tsValue, tsMaxLength, scoreVars, factoryVars, selectVars, cookieVars, leakVars, vaultVars, configurableVars, exportVars, strategyVars, jarVars, daoVars, workerVars>>

InitTruncate == TruncateInit /\ ScoreIdle /\ FactoryIdle /\ SelectIdle /\ CookieIdle /\ LeakIdle /\ VaultIdle /\ ConfigurableIdle /\ ExportIdle /\ StrategyIdle /\ JarIdle /\ DaoIdle /\ WorkerIdle

SpecTruncate == InitTruncate /\ [][TruncateString]_vars

\* C17: truncate_string returns None for None and the value itself when it
\* is no longer than max_length; otherwise the result has length exactly
\* max_length and is the first max_length - 3 characters of the value
\* followed by "..."; for every max_length the result is never longer than
\* max_length.
C17_TruncatedToMaxLength ==
    tsResult # NotReturned =>
        IF tsValue = None THEN tsResult.value = None
        ELSE /\ Len(tsResult.value) <= tsMaxLength
             /\ IF Len(tsValue) <= tsMaxLength THEN tsResult.value = tsValue
                ELSE /\ Len(tsResult.value) = tsMaxLength
                     /\ tsResult.value
                            = SubSeq(tsValue, 1, tsMaxLength - EllipsisLen) \o "..."

\* ------------------------------------------------------------------------
\* VaultExtractor.extract as an operation on wallet files
\* ------------------------------------------------------------------------
MaxMembers == 2

\* A JSON object file is made of optional members, in this order: an
\* encrypted blob, a text hint, address, version, an Electrum key, Crypto
\* and crypto.  Each slot is "none" or names what is written.
BlobText(blob) ==
    CASE blob = "data-iv-salt" -> <<"\"data\":\"YQ\",\"iv\":\"Yg\",\"salt\":\"Yw\"">>
      [] blob = "encrypted-nonce-kdf-salt" ->
            <<"\"encrypted\":\"YQ\",\"nonce\":\"Yg\",\"kdf\":\"scrypt\",\"salt\":\"Yw\"">>
      [] blob = "ct-iv-s" -> <<"\"ct\":\"YQ\",\"iv\":\"Yg\",\"s\":\"Yw\"">>
      [] blob = "data-iv" -> <<"\"data\":\"YQ\",\"iv\":\"Yg\"">>
      [] OTHER -> <<>>

HintText(hint) ==
    CASE hint = "metamask" -> <<"\"name\":\"MetaMask\"">>
      [] hint = "wallet.dat" -> <<"\"file\":\"wallet.dat\"">>
      [] hint = "sqlite" -> <<"\"header\":\"SQLite format 3\"">>
      [] OTHER -> <<>>

ElectrumText(electrum) ==
    CASE electrum = "seed_version" -> <<"\"seed_version\":17">>
      [] electrum = "wallet_type" -> <<"\"wallet_type\":\"standard\"">>
      [] OTHER -> <<>>

CryptoText(crypto) ==
    CASE crypto = "dict" -> <<"\"crypto\":{\"kdf\":\"scrypt\",\"cipher\":\"aes\"}">>
      [] crypto = "empty" -> <<"\"crypto\":{}">>
      [] crypto = "string" -> <<"\"crypto\":\"x\"">>
      [] OTHER -> <<>>

MemberTexts(doc) ==
    BlobText(doc.blob) \o HintText(doc.hint)
        \o (IF doc.address = "none" THEN <<>> ELSE <<"\"address\":\"0xab\"">>)
        \o (IF doc.version = "none" THEN <<>> ELSE <<"\"version\":3">>)
        \o ElectrumText(doc.electrum)
        \o (IF doc.Crypto = "none" THEN <<>> ELSE <<"\"Crypto\":{\"kdf\":\"pbkdf2\"}">>)
        \o CryptoText(doc.crypto)

\* s.replace('"', '\\"'), by halves
RECURSIVE EscapeQuotes(_, _, _)
EscapeQuotes(s, lo, hi) ==
    IF lo > hi THEN ""
    ELSE IF lo = hi THEN (IF Char(s, lo) = "\"" THEN "\\\"" ELSE Char(s, lo))
    ELSE EscapeQuotes(s, lo, (lo + hi) \div 2) \o EscapeQuotes(s, (lo + hi) \div 2 + 1, hi)

ObjectText(members) == "{" \o Join(members, ",") \o "}"

\* the lines of the file: the object on one line; one member a line with
\* blanks around it; the object with its quotes escaped, as a browser's
\* LevelDB log holds it; the object inside other text
RenderObject(members, wrapper) ==
    CASE wrapper = "plain" -> <<ObjectText(members)>>
      [] wrapper = "lines" ->
            <<"", " {">>
            \o [i \in DOMAIN members |->
                    "  " \o members[i] \o (IF i < Len(members) THEN " ," ELSE "")]
            \o <<"}\t", "">>
      [] wrapper = "escaped" ->
            <<EscapeQuotes(ObjectText(members), 1, Len(ObjectText(members)))>>
      [] wrapper = "log" -> <<"j " \o ObjectText(members) \o " t">>

\* a browser's LevelDB log that holds the blobs of several writes, the
\* latest write last, with or without its quotes escaped
LogText(blobs) ==
    "j " \o Join([i \in DOMAIN blobs |-> ObjectText(BlobText(blobs[i]))], " t ") \o " u"

RenderLog(blobs, escaped) ==
    IF escaped THEN <<EscapeQuotes(LogText(blobs), 1, Len(LogText(blobs)))>>
    ELSE <<LogText(blobs)>>

Render(doc) ==
    IF doc.kind = "text" THEN doc.lines
    ELSE IF doc.kind = "log" THEN RenderLog(doc.blobs, doc.escaped)
    ELSE RenderObject(MemberTexts(doc), doc.wrapper)

Slots == {"blob", "hint", "address", "version", "electrum", "Crypto", "crypto"}

NumMembers(doc) == Cardinality({slot \in Slots : doc[slot] # "none"})

ObjectDocs ==
    {doc \in [kind : {"object"},
              blob : {"none", "data-iv-salt", "encrypted-nonce-kdf-salt", "ct-iv-s", "data-iv"},
              hint : {"none", "metamask", "wallet.dat", "sqlite"},
              address : {"none", "string"},
              version : {"none", "number"},
              electrum : {"none", "seed_version", "wallet_type"},
              Crypto : {"none", "dict"},
              crypto : {"none", "dict", "empty", "string"},
              wrapper : {"plain", "lines", "escaped", "log"}] :
        NumMembers(doc) <= MaxMembers}

\* files of no byte and of one byte, and text files with and without a hint
\* of a Bitcoin wallet
TextDocs ==
    {[kind |-> "text", lines |-> lines, hint |-> "none"] :
        lines \in {<<>>, <<"{">>, <<"}">>, <<"x">>, <<"1">>, <<"\"">>, <<" ">>, <<"">>,
                   <<"{\"seed_version\":17">>, <<"{\"version\":3,}">>,
                   <<"version 3">>}}
    \cup {[kind |-> "text", lines |-> <<"SQLite format 3", "x">>, hint |-> "sqlite"],
          [kind |-> "text", lines |-> <<"C:/Users/a/Wallet.DAT">>, hint |-> "wallet.dat"]}

MaxBlobs == 2

LogDocs ==
    {[kind |-> "log", blobs |-> blobs, escaped |-> escaped, hint |-> "none"] :
        blobs \in UNION {[1..n -> {"data-iv-salt", "encrypted-nonce-kdf-salt", "ct-iv-s"}] :
                            n \in 1..MaxBlobs},
        escaped \in BOOLEAN}

VaultDocs == ObjectDocs \cup TextDocs \cup LogDocs

VaultInit ==
    /\ vtDoc \in VaultDocs
    /\ vtLines = Render(vtDoc)
    /\ vtRaw = NotExtracted

VaultExtract ==
    /\ vtRaw = NotExtracted
    /\ vtRaw' = [extracted |-> TRUE, raw |-> VaultExtractor_extract(vtLines)]
    /\ UNCHANGED <<vtDoc, vtLines, scoreVars, factoryVars, selectVars, cookieVars, leakVars, truncateVars, configurableVars, exportVars, strategyVars, jarVars, daoVars, workerVars>>

InitVault == VaultInit /\ ScoreIdle /\ FactoryIdle /\ SelectIdle /\ CookieIdle /\ LeakIdle /\ TruncateIdle /\ ConfigurableIdle /\ ExportIdle /\ StrategyIdle /\ JarIdle /\ DaoIdle /\ WorkerIdle

SpecVault == InitVault /\ [][VaultExtract]_vars

\* ------------------------------------------------------------------------
\* Claims about VaultExtractor.extract
\* ------------------------------------------------------------------------
\* the whole content is a JSON text
ValidJson(doc) == doc.kind = "object" /\ doc.wrapper \in {"plain", "lines"}

HasElectrumKey(doc) == doc.electrum # "none"

HasKeystoreKey(doc) == doc.crypto # "none" \/ doc.Crypto # "none" \/ doc.version # "none"

HasBitcoinHint(doc) == doc.hint \in {"wallet.dat", "sqlite"}

\* the content holds the three or four members of an encrypted blob and,
\* behind the last of them, a "}" that closes the match: the next brace is
\* a "}", or a quote stands between a later "{" and a "}" (the lazy value
\* of the last member then runs up to that quote); an empty object as the
\* only one behind the blob leaves neither
HasBlob(doc) ==
    \/ doc.kind = "log"
    \/ /\ doc.kind = "object"
       /\ doc.blob \in {"data-iv-salt", "encrypted-nonce-kdf-salt", "ct-iv-s"}
       /\ ~(doc.crypto = "empty" /\ doc.Crypto = "none")

\* a file of one byte: one character, or one line end
OneByte(doc) == doc.kind = "text" /\ Len(doc.lines) = 1 /\ Len(doc.lines[1]) <= 1

VaultType(raw) == IF raw = EmptyDict THEN "no record" ELSE DictGet(raw, "vault_type")

\* the record of the keystore rule is the one that holds an address
FromKeystoreRule(raw) == HasKey(raw, "keystore_address")

\* C12: the record VaultExtractor.extract returns is that of the first rule
\* that applies to the content, in the order Electrum JSON, keystore JSON,
\* Bitcoin wallet hint, encrypted blob; it returns no record when no rule
\* applies, and none for a file of one byte.
C12_FirstApplicableRule ==
    vtRaw # NotExtracted =>
        /\ IF ValidJson(vtDoc) /\ HasElectrumKey(vtDoc)
           THEN VaultType(vtRaw.raw) = "electrum"
           ELSE IF ValidJson(vtDoc) /\ HasKeystoreKey(vtDoc)
           THEN FromKeystoreRule(vtRaw.raw)
           ELSE IF HasBitcoinHint(vtDoc)
           THEN VaultType(vtRaw.raw) = "bitcoin"
           ELSE IF HasBlob(vtDoc)
           THEN VaultType(vtRaw.raw) = "metamask" /\ ~FromKeystoreRule(vtRaw.raw)
           ELSE vtRaw.raw = EmptyDict
        /\ OneByte(vtDoc) => vtRaw.raw = EmptyDict

\* a keystore object that also names wallet.dat gives the keystore record
C12_Witness ==
    /\ vtRaw # NotExtracted
    /\ ValidJson(vtDoc)
    /\ vtDoc.version # "none"
    /\ vtDoc.hint = "wallet.dat"
    /\ FromKeystoreRule(vtRaw.raw)

ExpectedAddress(doc) == IF doc.address = "none" THEN JNone ELSE JStr("0xab")

\* kdf and cipher of the value of crypto or, crypto being absent or empty,
\* of Crypto; None where that value is no object or lacks the member
ExpectedKdf(doc) ==
    CASE doc.crypto = "dict" -> JStr("scrypt")
      [] doc.crypto = "string" -> JNone
      [] doc.Crypto = "dict" -> JStr("pbkdf2")
      [] OTHER -> JNone

ExpectedCipher(doc) == IF doc.crypto = "dict" THEN JStr("aes") ELSE JNone

KeystoreCase(doc) == ValidJson(doc) /\ ~HasElectrumKey(doc) /\ HasKeystoreKey(doc)

KeystoreRecordIs(raw, doc, plain_type) ==
    /\ VaultType(raw) = (IF doc.hint = "metamask" THEN "metamask" ELSE plain_type)
    /\ FromKeystoreRule(raw)
    /\ DictGet(raw, "keystore_address") = ExpectedAddress(doc)
    /\ DictGet(raw, "keystore_kdf") = ExpectedKdf(doc)
    /\ DictGet(raw, "keystore_cipher") = ExpectedCipher(doc)

\* C13 as stated: a JSON object that is not Electrum and has crypto, Crypto
\* or version gives a record of vault_type ethereum-keystore, or metamask
\* if the lower-cased content contains "metamask", with the object's
\* address and the kdf and cipher of its crypto object.
C13_KeystoreIsEthereumKeystore ==
    (vtRaw # NotExtracted /\ KeystoreCase(vtDoc)) =>
        KeystoreRecordIs(vtRaw.raw, vtDoc, "ethereum-keystore")

\* C13: a JSON object that is not Electrum and has crypto, Crypto or version
\* gives a record of vault_type generic, or metamask if the lower-cased
\* content contains "metamask", with the object's address and the kdf and
\* cipher of its crypto object (of Crypto where crypto is absent or empty).
C13_KeystoreIsGeneric ==
    (vtRaw # NotExtracted /\ KeystoreCase(vtDoc)) =>
        KeystoreRecordIs(vtRaw.raw, vtDoc, "generic")

\* an empty crypto next to a Crypto object: generic, with the kdf of Crypto
C13_Witness ==
    /\ vtRaw # NotExtracted
    /\ KeystoreCase(vtDoc)
    /\ vtDoc.crypto = "empty"
    /\ vtDoc.Crypto = "dict"
    /\ VaultType(vtRaw.raw) = "generic"
    /\ DictGet(vtRaw.raw, "keystore_kdf") = JStr("pbkdf2")

NoBlobMatch == [start |-> 0, text |-> ""]

\* the last of the matches re.finditer gives for one pattern, with the
\* place in s where it starts; last is the last match before i
RECURSIVE LastMatchAt(_, _, _, _)
LastMatchAt(s, i, pieces, last) ==
    IF i = 0 THEN last
    ELSE IF ReMatch(s, i, pieces) # 0
    THEN LastMatchAt(s, NextBrace(s, ReMatch(s, i, pieces)), pieces,
                     [start |-> i, text |-> SubSeq(s, i, ReMatch(s, i, pieces) - 1)])
    ELSE LastMatchAt(s, NextBrace(s, i + 1), pieces, last)

\* the last match of each of the three patterns in s that has one
LastMatches(s) ==
    {LastMatchAt(s, NextBrace(s, 1), VaultPatterns[p], NoBlobMatch) : p \in DOMAIN VaultPatterns}
        \ {NoBlobMatch}

\* the file reaches the encrypted-blob rule
BlobRuleReached(doc) ==
    /\ ~(ValidJson(doc) /\ (HasElectrumKey(doc) \/ HasKeystoreKey(doc)))
    /\ ~HasBitcoinHint(doc)

\* C26: when the content without its backslashes holds matches of the
\* encrypted-blob patterns, the vault_data of the record is the match that
\* starts latest in the content, whichever of the three patterns gave it.
C26_LatestMatchOfAnyPattern ==
    (vtRaw # NotExtracted /\ BlobRuleReached(vtDoc)) =>
        \A m \in LastMatches(Without(StripSpace(Join(vtLines, "\n")), "\\")) :
            (\A n \in LastMatches(Without(StripSpace(Join(vtLines, "\n")), "\\")) :
                    n.start <= m.start)
                => /\ vtRaw.raw # EmptyDict
                   /\ DictGet(vtRaw.raw, "vault_data") = Clip(m.text, VaultDataLimit)

\* ------------------------------------------------------------------------
\* A ConfigurableParser built from a definition file and applied to a file
\* ------------------------------------------------------------------------
MaxTextLines == 2

\* RecordDefinition.model_validate(document): the fields the class declares
\* are taken from the document, the other keys of the document are ignored
\* (pydantic's default for extra keys); score_weights is left to its default
model_validate(doc) ==
    RecordDefinition(doc.key, doc.file_globs, doc.record_separators, doc.multiline,
                     doc.groups, doc.fields, DefaultScoreWeights)

\* a field whose header pattern names another word than the field and its
\* alias do
FieldsNameHeader == <<FieldDef("username", <<"user">>, <<"(?i)^name\\s*[:=]">>, "")>>

CredentialDocs ==
    {DefinitionDoc("credential", seps, TRUE, fields, extractors, <<>>) :
        seps \in {<<>>, <<"^-{2,}\\s*$">>},
        fields \in {FieldsUserPass, FieldsNameHeader},
        extractors \in {<<>>, <<PathCookiesDir>>, <<PathBrowserDir>>}}

\* definitions keyed "vault": with and without declared tags, header
\* patterns, separators and the multiline flag
VaultDefinitionDocs ==
    {DefinitionDoc("vault", seps, multiline, fields, extractors, declared) :
        seps \in {<<>>, <<"^$">>},
        multiline \in BOOLEAN,
        fields \in {<<>>, FieldsUserPass},
        extractors \in {<<>>, <<PathBrowserDir>>},
        declared \in {<<>>, <<"vault", "full-file">>}}

TextLinePool == {LineUser, LinePass, "Name: bob", LineDash, LineJunk}

\* the file of tests/test_vault_parser.py, and one that names MetaMask
JsonVersionFiles ==
    {<<"{\"version\":3,\"vault\":{\"data\":\"...\"}}">>,
     <<"{", "\"version\": 3,", "\"name\": \"MetaMask\"", "}">>}

ConfigurableTexts ==
    UNION {[1..n -> TextLinePool] : n \in 0..MaxTextLines} \cup JsonVersionFiles

PathChromeDefault == "VICTIM1/Chrome/Default/Passwords.txt"

ConfigurableFilenames == {None, PathCookies, PathChromeDefault, PathPasswords}

ConfigurableInit ==
    /\ cfDoc \in CredentialDocs \cup VaultDefinitionDocs
    /\ cfFilename \in ConfigurableFilenames
    /\ cfLines \in ConfigurableTexts
    /\ cfParser = NotBuilt
    /\ cfRecords = NotParsed

\* the registry filled as containers.py and tests/test_vault_parser.py fill
\* it, factory.build_parts(d) and ConfigurableParser(definition=d, parts=parts)
BuildParser ==
    /\ cfParser = NotBuilt
    /\ cfParser' = BuiltParser(model_validate(cfDoc),
                               build_parts(ContainerImpls, model_validate(cfDoc)))
    /\ UNCHANGED <<cfDoc, cfFilename, cfLines, cfRecords>>
    /\ UNCHANGED <<scoreVars, factoryVars, selectVars, cookieVars, leakVars, truncateVars, vaultVars, exportVars, strategyVars, jarVars, daoVars, workerVars>>

ParseFile ==
    /\ cfParser # NotBuilt
    /\ cfParser.kind = "ConfigurableParser"
    /\ cfRecords = NotParsed
    /\ cfRecords' = [parsed |-> TRUE,
                     records |-> ConfigurableParser_parse(cfParser, cfLines, cfFilename)]
    /\ UNCHANGED <<cfDoc, cfFilename, cfLines, cfParser>>
    /\ UNCHANGED <<scoreVars, factoryVars, selectVars, cookieVars, leakVars, truncateVars, vaultVars, exportVars, strategyVars, jarVars, daoVars, workerVars>>

ConfigurableNext == BuildParser \/ ParseFile

InitConfigurable == ConfigurableInit /\ ScoreIdle /\ FactoryIdle /\ SelectIdle /\ CookieIdle /\ LeakIdle /\ TruncateIdle /\ VaultIdle /\ ExportIdle /\ StrategyIdle /\ JarIdle /\ DaoIdle /\ WorkerIdle

SpecConfigurable == InitConfigurable /\ [][ConfigurableNext]_vars

\* ------------------------------------------------------------------------
\* Claims about ConfigurableParser
\* ------------------------------------------------------------------------
\* C11: with the eight built-in strategies registered in the order of
\* containers.py, the parser built from a definition keyed "vault" is made
\* of the full-file and vault strategies and, applied to a file that is a
\* JSON object with a version key, returns at least one record, the first
\* of type "vault" with vault_type metamask or generic and with vault_data.
C11_VaultDefinitionGetsVaultStrategies ==
    (cfRecords # NotParsed /\ cfDoc.key = "vault" /\ cfLines \in JsonVersionFiles) =>
        /\ cfParser.parts.chunker = FullFileChunker
        /\ cfParser.parts.extractor = VaultExtractor
        /\ cfParser.parts.transformer = VaultTransformer
        /\ Len(cfRecords.records) >= 1
        /\ cfRecords.records[1].type = "vault"
        /\ "vault_type" \in DOMAIN cfRecords.records[1]
        /\ cfRecords.records[1].vault_type \in {"metamask", "generic"}
        /\ "vault_data" \in DOMAIN cfRecords.records[1]

\* the groups a declared path extractor captures in filename that are not
\* None
Captured(src, filename) ==
    LET gd == SearchGroups(ReCompile(src), filename).groups
    IN {gd[i] : i \in {j \in DOMAIN gd : gd[j][2] # None}}

\* C18: when the definition file declares path_extractors and a filename is
\* given, every returned record carries at its top level the browser and
\* profile each extractor captures in the filename, and its fields and
\* groups are those the transformer produced.
C18_PathGroupsMerged ==
    (cfRecords # NotParsed /\ cfFilename # None) =>
        /\ Len(cfRecords.records) = Len(ConfigurableParser_parse(cfParser, cfLines, None))
        /\ \A j \in DOMAIN cfRecords.records :
            /\ \A i \in DOMAIN cfDoc.path_extractors :
                \A g \in Captured(cfDoc.path_extractors[i], cfFilename) :
                    /\ g[1] \in DOMAIN cfRecords.records[j]
                    /\ cfRecords.records[j][g[1]] = g[2]
            /\ cfRecords.records[j].fields
                    = ConfigurableParser_parse(cfParser, cfLines, None)[j].fields
            /\ cfRecords.records[j].groups
                    = ConfigurableParser_parse(cfParser, cfLines, None)[j].groups

\* C19: no record ConfigurableParser.parse returns has empty canonical
\* fields; a chunk whose keys resolve to no field of the definition gives
\* no record.
C19_NoRecordWithEmptyFields ==
    cfRecords # NotParsed =>
        \A j \in DOMAIN cfRecords.records :
            "fields" \in DOMAIN cfRecords.records[j] =>
                cfRecords.records[j].fields # EmptyDict

\* ------------------------------------------------------------------------
\* database/postgres.py: PostgreSQLExporter.export_leak
\* ------------------------------------------------------------------------
\* The sink is one psycopg2 connection with autocommit off: statements
\* gather in a transaction until commit or rollback; a statement the server
\* rejects aborts the transaction, and every later statement is refused
\* until a rollback; a commit of an aborted transaction rolls it back
\* without an error; once the connection has dropped every call on it
\* raises InterfaceError.  A row of the leak is "ok", "bad" (the server
\* rejects it: DataError) or "drop" (the connection drops while it is sent:
\* OperationalError).

\* the largest number of rows (systems and their children) of a leak
MaxExportRows == 3

RowKinds == {"ok", "bad", "drop"}

Row(table, id, parent) == [table |-> table, id |-> id, parent |-> parent]

ParentTable(table) == IF table = "systems" THEN "leaks" ELSE "systems"

HasRow(st, table, id) ==
    \/ \E i \in DOMAIN st.pending :
        st.pending[i].table = table /\ st.pending[i].id = id
    \/ \E i \in DOMAIN st.committed :
        st.committed[i].table = table /\ st.committed[i].id = id

\* the connection and exporter at the start of export_leak, on a clean sink
Connected(sink) ==
    [committed |-> <<>>, pending |-> <<>>, aborted |-> FALSE, closed |-> FALSE,
     nextId |-> 1, errors |-> <<>>, last |-> None, leakInserts |-> 0,
     attempted |-> 0,
     foreignKeys |-> sink.foreignKeys, commitDrops |-> sink.commitDrops]

Raised(st, error) ==
    [st EXCEPT !.last = error, !.errors = Append(@, error)]

\* psycopg2.DatabaseError and its subclasses; InterfaceError is none
IsPostgreSQLError(error) ==
    error \in {"OperationalError", "DataError", "ForeignKeyViolation",
               "InFailedSqlTransaction"}

\* the errors of a dropped connection
IsTransient(error) == error \in {"OperationalError", "InterfaceError"}

\* cursor.execute of one INSERT; the id of a leaks or systems row is
\* nextId, a child row has none
Execute(st, table, parent, kind) ==
    IF st.closed THEN Raised(st, "InterfaceError")
    ELSE IF kind = "drop"
    THEN [Raised(st, "OperationalError") EXCEPT
            !.closed = TRUE, !.pending = <<>>, !.aborted = FALSE]
    ELSE IF st.aborted THEN Raised(st, "InFailedSqlTransaction")
    ELSE IF kind = "bad"
    THEN [Raised(st, "DataError") EXCEPT !.aborted = TRUE]
    ELSE IF st.foreignKeys /\ parent # 0 /\ ~HasRow(st, ParentTable(table), parent)
    THEN [Raised(st, "ForeignKeyViolation") EXCEPT !.aborted = TRUE]
    ELSE [st EXCEPT
            !.pending = Append(@,
                Row(table,
                    IF table \in {"leaks", "systems"} THEN st.nextId ELSE 0,
                    parent)),
            !.nextId = IF table \in {"leaks", "systems"} THEN @ + 1 ELSE @,
            !.last = None]

\* connection.rollback()
Rollback(st) ==
    IF st.closed THEN Raised(st, "InterfaceError")
    ELSE [st EXCEPT !.pending = <<>>, !.aborted = FALSE, !.last = None]

\* connection.commit()
Commit(st) ==
    IF st.closed THEN Raised(st, "InterfaceError")
    ELSE IF st.commitDrops
    THEN [Raised(st, "OperationalError") EXCEPT
            !.closed = TRUE, !.pending = <<>>, !.aborted = FALSE]
    ELSE IF st.aborted
    THEN [st EXCEPT !.pending = <<>>, !.aborted = FALSE, !.last = None]
    ELSE [st EXCEPT !.committed = @ \o st.pending, !.pending = <<>>,
                    !.last = None]

\* how a method ends: the connection after it, the exception that leaves
\* it (None when it returns) and the value it returns
Ended(st, raised, value) == [st |-> st, raised |-> raised, value |-> value]

\* an except clause that rolls back and re-raises: an exception of the
\* rollback replaces the one handled
AfterRollbackRaise(st, error) ==
    Ended(st, IF st.last # None THEN st.last ELSE error, 0)

\* insert_leak and insert_system after their execute
AfterReturning(st) ==
    IF st.last = None THEN Ended(st, None, st.nextId - 1)
    ELSE IF IsPostgreSQLError(st.last)
    THEN AfterRollbackRaise(Rollback(st), st.last)
    ELSE Ended(st, st.last, 0)

insert_leak(st, leak) ==
    AfterReturning(
        Execute([st EXCEPT !.leakInserts = @ + 1], "leaks", 0, leak.kind))

\* a system_data without a system gets a placeholder System()
SystemKind(system) == IF system = None THEN "ok" ELSE system

insert_system(st, system, leak_id) ==
    AfterReturning(Execute(st, "systems", leak_id, SystemKind(system)))

RECURSIVE ExecuteMany(_, _, _, _, _)
RECURSIVE ExecuteManyNext(_, _, _, _, _)
\* cursor.executemany from row i on: one execute per row, up to the first
\* that raises
ExecuteMany(st, table, rows, parent, i) ==
    IF i > Len(rows) THEN st
    ELSE ExecuteManyNext(Execute(st, table, parent, rows[i]), table, rows, parent, i)

ExecuteManyNext(st, table, rows, parent, i) ==
    IF st.last # None THEN st
    ELSE ExecuteMany(st, table, rows, parent, i + 1)

RECURSIVE Individually(_, _, _, _, _, _)
RECURSIVE AfterIndividual(_, _, _, _, _, _)
\* the fallback loop of insert_credentials and insert_cookies from row i on
Individually(st, table, rows, parent, i, inserted_count) ==
    IF i > Len(rows) THEN Ended(st, None, inserted_count)
    ELSE AfterIndividual(Execute(st, table, parent, rows[i]),
                         table, rows, parent, i, inserted_count)

AfterIndividual(st, table, rows, parent, i, inserted_count) ==
    IF st.last = None
    THEN Individually(st, table, rows, parent, i + 1, inserted_count + 1)
    ELSE IF IsPostgreSQLError(st.last)
    THEN Individually(st, table, rows, parent, i + 1, inserted_count)
    ELSE Ended(st, st.last, 0)

\* after the rollback of the failed batch
AfterBatchRollback(st, table, rows, parent) ==
    IF st.last # None THEN Ended(st, st.last, 0)
    ELSE Individually(st, table, rows, parent, 1, 0)

AfterBatch(st, table, rows, parent) ==
    IF st.last = None THEN Ended(st, None, Len(rows))
    ELSE IF IsPostgreSQLError(st.last)
    THEN AfterBatchRollback(Rollback(st), table, rows, parent)
    ELSE Ended(st, st.last, 0)

\* insert_credentials and insert_cookies, which differ in the table only
insert_rows(st, table, rows, system_id) ==
    IF rows = <<>> THEN Ended(st, None, 0)
    ELSE IF st.closed THEN Ended(Raised(st, "InterfaceError"), "InterfaceError", 0)
    ELSE AfterBatch(ExecuteMany(st, table, rows, system_id, 1), table, rows, system_id)

insert_credentials(st, credentials, system_id) ==
    insert_rows(st, "credentials", credentials, system_id)

insert_cookies(st, cookies, system_id) ==
    insert_rows(st, "cookies", cookies, system_id)

NoStats == [systems |-> 0, credentials |-> 0, cookies |-> 0]

\* how export_leak ended: the exception it raised or None, the dict it
\* returned, and the sink after it
Exported(st, raised, stats) ==
    [exported |-> TRUE, raised |-> raised, stats |-> stats,
     rows |-> st.committed, errors |-> st.errors,
     leakInserts |-> st.leakInserts, leak_id |-> st.attempted]

\* except PostgreSQLError of export_leak: rollback and raise
ExportFailed(st, error) ==
    Exported(st, IF st.last # None THEN st.last ELSE error, NoStats)

AfterCommit(st, stats) ==
    IF st.last = None THEN Exported(st, None, stats)
    ELSE IF IsPostgreSQLError(st.last) THEN ExportFailed(Rollback(st), st.last)
    ELSE Exported(st, st.last, NoStats)

AddTo(stats, key, ended) ==
    IF ended.raised = None THEN [stats EXCEPT ![key] = @ + ended.value] ELSE stats

RECURSIVE ExportSystems(_, _, _, _)
RECURSIVE AfterSystem(_, _, _, _)
RECURSIVE AfterCredentials(_, _, _, _, _)
RECURSIVE AfterCookies(_, _, _, _)
\* the loop of export_leak over leak.systems_data from system i on, then
\* the commit
ExportSystems(st, systems_data, i, stats) ==
    IF i > Len(systems_data) THEN AfterCommit(Commit(st), stats)
    ELSE AfterSystem(insert_system(st, systems_data[i].system, st.attempted),
                     systems_data, i, stats)

AfterSystem(ended, systems_data, i, stats) ==
    IF ended.raised # None
    THEN ExportSystems(ended.st, systems_data, i + 1, stats)
    ELSE AfterCredentials(
            insert_credentials(ended.st, systems_data[i].credentials, ended.value),
            ended.value, systems_data, i,
            [stats EXCEPT !.systems = @ + 1])

AfterCredentials(ended, system_id, systems_data, i, stats) ==
    AfterCookies(insert_cookies(ended.st, systems_data[i].cookies, system_id),
                 systems_data, i, AddTo(stats, "credentials", ended))

AfterCookies(ended, systems_data, i, stats) ==
    ExportSystems(ended.st, systems_data, i + 1, AddTo(stats, "cookies", ended))

AfterLeak(ended, leak) ==
    IF ended.raised = None
    THEN ExportSystems([ended.st EXCEPT !.attempted = ended.value],
                       leak.systems_data, 1, NoStats)
    ELSE IF IsPostgreSQLError(ended.raised)
    THEN ExportFailed(Rollback(ended.st), ended.raised)
    ELSE Exported(ended.st, ended.raised, NoStats)

export_leak(st, leak) == AfterLeak(insert_leak(st, leak), leak)

\* the sequences of n rows
RowSeqs(n, kinds) == [1..n -> kinds]

\* how n child rows are shared among credentials, cookies, vaults and
\* user_files
Shares(n) == {share \in [1..4 -> 0..n] : share[1] + share[2] + share[3] + share[4] = n}

\* the system_data entries of n rows, the system counted
SystemDatas(n) ==
    UNION {{[system |-> system, credentials |-> credentials, cookies |-> cookies,
             vaults |-> vaults, user_files |-> user_files] :
                system \in {None} \cup RowKinds,
                credentials \in RowSeqs(share[1], RowKinds),
                cookies \in RowSeqs(share[2], RowKinds),
                vaults \in RowSeqs(share[3], {"ok"}),
                user_files \in RowSeqs(share[4], {"ok"})} :
           share \in Shares(n - 1)}

RECURSIVE SystemsOfSize(_)
SystemsOfSize(n) ==
    IF n = 0 THEN {<<>>}
    ELSE UNION {{<<system_data>> \o rest :
                    system_data \in SystemDatas(k), rest \in SystemsOfSize(n - k)} :
                k \in 1..n}

ExportLeaks ==
    {[kind |-> kind, systems_data |-> systems_data] :
        kind \in RowKinds,
        systems_data \in UNION {SystemsOfSize(n) : n \in 0..MaxExportRows}}

ExportInit ==
    /\ exLeak \in ExportLeaks
    /\ exSink \in [foreignKeys : BOOLEAN, commitDrops : BOOLEAN]
    /\ exResult = NotExported

ExportLeak ==
    /\ exResult = NotExported
    /\ exResult' = export_leak(Connected(exSink), exLeak)
    /\ UNCHANGED <<exLeak, exSink, scoreVars, factoryVars, selectVars, cookieVars, leakVars, truncateVars, vaultVars, configurableVars, strategyVars, jarVars, daoVars, workerVars>>

InitExport == ExportInit /\ ScoreIdle /\ FactoryIdle /\ SelectIdle /\ CookieIdle /\ LeakIdle /\ TruncateIdle /\ VaultIdle /\ ConfigurableIdle /\ StrategyIdle /\ JarIdle /\ DaoIdle /\ WorkerIdle

SpecExport == InitExport /\ [][ExportLeak]_vars

\* ------------------------------------------------------------------------
\* Claims about export_leak
\* ------------------------------------------------------------------------
CountRows(rows, table) ==
    Cardinality({i \in DOMAIN rows : rows[i].table = table})

\* the number of rows of one kind the systems of the leak hold
Children(leak, kind) ==
    Cardinality(UNION {{<<i, j>> : j \in DOMAIN leak.systems_data[i][kind]} :
                       i \in DOMAIN leak.systems_data})

WroteAll(rows, leak) ==
    /\ CountRows(rows, "leaks") = 1
    /\ CountRows(rows, "systems") = Len(leak.systems_data)
    /\ CountRows(rows, "credentials") = Children(leak, "credentials")
    /\ CountRows(rows, "cookies") = Children(leak, "cookies")

\* C14: export_leak is all-or-nothing: after it the sink holds either every
\* row of the export (the leak row, one row per system, every credential
\* and cookie row) or none of them, and when any insert or the commit
\* failed it holds no row of the attempted leak.
C14_AllOrNothing ==
    exResult # NotExported =>
        /\ exResult.rows = <<>> \/ WroteAll(exResult.rows, exLeak)
        /\ (exResult.errors # <<>> \/ exResult.raised # None) => exResult.rows = <<>>

\* C15: when the first error the sink raises is a transient connection
\* error the export is attempted again, at most 3 times in all, and an
\* export that then returns has left exactly one leak row and every child
\* row; when the first error is not transient it leaves export_leak after a
\* single attempt.
C15_RetryOnTransient ==
    (exResult # NotExported /\ exResult.errors # <<>>) =>
        IF IsTransient(exResult.errors[1])
        THEN /\ exResult.leakInserts \in 2..3
             /\ exResult.raised = None => WroteAll(exResult.rows, exLeak)
        ELSE /\ exResult.leakInserts = 1
             /\ exResult.raised = exResult.errors[1]

StatKeys == {"systems", "credentials", "cookies", "vaults", "user_files"}

Expected(leak, key) ==
    IF key = "systems" THEN Len(leak.systems_data) ELSE Children(leak, key)

\* C16: the dict export_leak returns has the keys systems, credentials,
\* cookies, vaults and user_files, each value is the number of rows of that
\* kind the sink holds for the leak, and without an error that is every
\* row of that kind of the leak.
C16_StatsOfFiveKinds ==
    (exResult # NotExported /\ exResult.raised = None) =>
        /\ DOMAIN exResult.stats = StatKeys
        /\ \A key \in StatKeys :
            /\ exResult.stats[key] = CountRows(exResult.rows, key)
            /\ exResult.errors = <<>> =>
                    CountRows(exResult.rows, key) = Expected(exLeak, key)

\* ------------------------------------------------------------------------
\* The three key-value strategies applied one after the other, as
\* ConfigurableParser.parse chains them
\* ------------------------------------------------------------------------
\* the largest number of lines of a text given to the chunker
MaxChunkLines == 3

\* the fields of tests/test_configurable_parser.py
FieldsGrouped ==
    <<FieldDef("username", <<"user", "login">>,
               <<"(?i)^(username|user|login)\\s*[:=]">>, "auth"),
      FieldDef("password", <<"pass", "pwd">>,
               <<"(?i)^(password|pass|pwd)\\s*[:=]">>, "auth")>>

StrategyDefinitions ==
    {RecordDefinition("credential", <<>>, seps, TRUE, <<>>, fields, DefaultScoreWeights) :
        seps \in {<<>>, <<"^-{2,}\\s*$", "^$">>},
        fields \in {FieldsUserPass, FieldsGrouped}}

StrategyLinePool ==
    {LineUser, LinePass, "USER = bob", "login=a:b", LineDash, LineEmpty, LineJunk}

StrategyInit ==
    /\ sgDef \in StrategyDefinitions
    /\ sgLines \in UNION {[1..n -> StrategyLinePool] : n \in 0..MaxChunkLines}
    /\ sgChunks = NotChunked
    /\ sgRaws = NotChunked
    /\ sgRecords = NotChunked

ChunkLines ==
    /\ sgChunks = NotChunked
    /\ sgChunks' = [done |-> TRUE,
                    chunks |-> RegexSeparatorChunker_chunk(
                                    sgLines, compiled(sgDef).separators, <<>>)]
    /\ UNCHANGED <<sgDef, sgLines, sgRaws, sgRecords, scoreVars, factoryVars, selectVars, cookieVars, leakVars, truncateVars, vaultVars, configurableVars, exportVars, jarVars, daoVars, workerVars>>

ExtractChunks ==
    /\ sgChunks # NotChunked
    /\ sgRaws = NotChunked
    /\ sgRaws' = [done |-> TRUE,
                  raws |-> [i \in DOMAIN sgChunks.chunks |->
                                KVHeaderExtractor_extract(sgChunks.chunks[i], sgDef, EmptyDict)]]
    /\ UNCHANGED <<sgDef, sgLines, sgChunks, sgRecords, scoreVars, factoryVars, selectVars, cookieVars, leakVars, truncateVars, vaultVars, configurableVars, exportVars, jarVars, daoVars, workerVars>>

TransformRaws ==
    /\ sgRaws # NotChunked
    /\ sgRecords = NotChunked
    /\ sgRecords' = [done |-> TRUE,
                     records |-> [i \in DOMAIN sgRaws.raws |->
                                    AliasGroupingTransformer_transform(sgRaws.raws[i], sgDef)]]
    /\ UNCHANGED <<sgDef, sgLines, sgChunks, sgRaws, scoreVars, factoryVars, selectVars, cookieVars, leakVars, truncateVars, vaultVars, configurableVars, exportVars, jarVars, daoVars, workerVars>>

StrategyNext == ChunkLines \/ ExtractChunks \/ TransformRaws

InitStrategy == StrategyInit /\ ScoreIdle /\ FactoryIdle /\ SelectIdle /\ CookieIdle /\ LeakIdle /\ TruncateIdle /\ VaultIdle /\ ConfigurableIdle /\ ExportIdle /\ JarIdle /\ DaoIdle /\ WorkerIdle

SpecStrategy == InitStrategy /\ [][StrategyNext]_vars

\* ------------------------------------------------------------------------
\* Claims about the key-value strategies
\* ------------------------------------------------------------------------
\* ln matches one of the record separators of the definition
IsSeparatorLine(definition, ln) ==
    \E i \in DOMAIN definition.record_separators :
        Search(ReCompile(definition.record_separators[i]), ln)

\* the maximal runs of consecutive lines that are no separator lines, each
\* as <<first, last>>
ContentRuns(definition, lines) ==
    {run \in (DOMAIN lines) \X (DOMAIN lines) :
        /\ run[1] <= run[2]
        /\ \A i \in run[1]..run[2] : ~IsSeparatorLine(definition, lines[i])
        /\ run[1] = 1 \/ IsSeparatorLine(definition, lines[run[1] - 1])
        /\ run[2] = Len(lines) \/ IsSeparatorLine(definition, lines[run[2] + 1])}

\* the runs that start before the given one, itself counted
RunsUpTo(runs, run) == {other \in runs : other[1] <= run[1]}

\* C22: the chunks RegexSeparatorChunker.chunk yields are, in the order of
\* the input, the maximal runs of consecutive lines that match no record
\* separator: none is empty, none holds a separator line, and a text of
\* separator lines only gives no chunk.
C22_ChunksAreContentRuns ==
    sgChunks # NotChunked =>
        /\ Len(sgChunks.chunks) = Cardinality(ContentRuns(sgDef, sgLines))
        /\ \A run \in ContentRuns(sgDef, sgLines) :
            sgChunks.chunks[Cardinality(RunsUpTo(ContentRuns(sgDef, sgLines), run))]
                = SubSeq(sgLines, run[1], run[2])
        /\ \A i \in DOMAIN sgChunks.chunks :
            /\ sgChunks.chunks[i] # <<>>
            /\ \A j \in DOMAIN sgChunks.chunks[i] :
                ~IsSeparatorLine(sgDef, sgChunks.chunks[i][j])
        /\ (\A i \in DOMAIN sgLines : IsSeparatorLine(sgDef, sgLines[i]))
                => sgChunks.chunks = <<>>

\* a text with a separator line between two runs has been chunked
C22_Witness ==
    /\ sgChunks # NotChunked
    /\ sgDef.record_separators # <<>>
    /\ sgLines = <<LineUser, LineDash, LinePass>>
    /\ sgChunks.chunks = <<<<LineUser>>, <<LinePass>>>>

\* the position of the leftmost key-value delimiter in ln, whichever of the
\* configured delimiters it is; 0 when ln holds none
LeftmostDelimiter(ln) ==
    LET at == {i \in 1..Len(ln) :
                \E d \in DOMAIN DefaultKvDelimiters : Char(ln, i) = DefaultKvDelimiters[d]}
    IN IF at = {} THEN 0 ELSE CHOOSE i \in at : \A j \in at : i <= j

IsHeaderLine(definition, ln) ==
    /\ \E i \in DOMAIN compiled(definition).headers :
            Search(compiled(definition).headers[i], ln)
    /\ LeftmostDelimiter(ln) # 0

LeftKey(ln) == Strip(SubSeq(ln, 1, LeftmostDelimiter(ln) - 1))

LeftValue(ln) == Strip(SubSeq(ln, LeftmostDelimiter(ln) + 1, Len(ln)))

\* the positions of the header lines of a chunk whose key is the given one
LinesOfKey(definition, chunk, key) ==
    {j \in DOMAIN chunk : IsHeaderLine(definition, chunk[j]) /\ LeftKey(chunk[j]) = key}

FirstOf(positions) == CHOOSE j \in positions : \A k \in positions : j <= k

LastOf(positions) == CHOOSE j \in positions : \A k \in positions : k <= j

\* the keys of a raw dict the extractor took from lines
DataKeys(raw) == {i \in DOMAIN raw : raw[i][1] # "_order"}

\* C23: for each line of a chunk that matches a header pattern,
\* KVHeaderExtractor.extract splits the line at the leftmost key-value
\* delimiter in it and records the trimmed key with the trimmed value, and
\* the keys of the dict are in the order of their first occurrence in the
\* chunk.
C23_SplitAtLeftmostDelimiter ==
    sgRaws # NotChunked =>
        \A c \in DOMAIN sgRaws.raws :
            /\ \A j \in DOMAIN sgChunks.chunks[c] :
                IsHeaderLine(sgDef, sgChunks.chunks[c][j]) =>
                    /\ HasKey(sgRaws.raws[c], LeftKey(sgChunks.chunks[c][j]))
                    /\ DictGet(sgRaws.raws[c], LeftKey(sgChunks.chunks[c][j]))
                        = LeftValue(sgChunks.chunks[c][
                            LastOf(LinesOfKey(sgDef, sgChunks.chunks[c],
                                              LeftKey(sgChunks.chunks[c][j])))])
            /\ \A a \in DataKeys(sgRaws.raws[c]) :
                /\ LinesOfKey(sgDef, sgChunks.chunks[c], sgRaws.raws[c][a][1]) # {}
                /\ \A b \in DataKeys(sgRaws.raws[c]) :
                    a < b =>
                        FirstOf(LinesOfKey(sgDef, sgChunks.chunks[c], sgRaws.raws[c][a][1]))
                        < FirstOf(LinesOfKey(sgDef, sgChunks.chunks[c], sgRaws.raws[c][b][1]))

\* the raw key k resolves to the field fdef: it is, letter case aside, the
\* name of the field or one of its aliases
ResolvesTo(k, fdef) ==
    \/ Lower(k) = Lower(fdef.name)
    \/ \E a \in DOMAIN fdef.aliases : Lower(k) = Lower(fdef.aliases[a])

\* the positions in raw of the keys that resolve to fdef
KeysOf(raw, fdef) == {i \in DOMAIN raw : ResolvesTo(raw[i][1], fdef)}

BrowserNames == <<"chrome", "brave", "edge", "firefox">>

ProfileNames == {"default", "profile 1", "profile1", "profile 2", "profile2"}

\* the first of the browser names that occurs in the path, letter case
\* aside; "unknown" when none does
FirstBrowserHit(filepath) ==
    LET hits == {b \in DOMAIN BrowserNames : Contains(Lower(filepath), BrowserNames[b])}
    IN IF hits = {} THEN "unknown"
       ELSE BrowserNames[CHOOSE b \in hits : \A other \in hits : b <= other]

\* the first path segment that is a profile name, letter case aside, in
\* lower case; "unknown" when none is
FirstProfileSegment(filepath) ==
    LET at == {i \in DOMAIN Split(filepath, "/") :
                Lower(Split(filepath, "/")[i]) \in ProfileNames}
    IN IF at = {} THEN "unknown"
       ELSE Lower(Split(filepath, "/")[CHOOSE i \in at : \A j \in at : i <= j])

WalletsAt(filepath) ==
    LET at == {i \in DOMAIN Split(filepath, "/") : Lower(Split(filepath, "/")[i]) = "wallets"}
    IN IF at = {} THEN 0 ELSE CHOOSE i \in at : \A j \in at : i <= j

\* the part of a segment before its first space, and the part after it
BeforeSpace(segment) ==
    SubSeq(segment, 1, (CHOOSE i \in 1..Len(segment) :
                            /\ Char(segment, i) = " "
                            /\ \A j \in 1..(i - 1) : Char(segment, j) # " ") - 1)

AfterSpace(segment) == SubSeq(segment, Len(BeforeSpace(segment)) + 2, Len(segment))

UnknownIfEmpty(part) == IF part = "" THEN "unknown" ELSE part

\* browser and profile of a vault whose path has a segment after Wallets
WalletsBrowser(segment) ==
    UnknownIfEmpty(IF Contains(segment, " ") THEN BeforeSpace(segment) ELSE segment)

WalletsProfile(segment, filepath) ==
    IF Contains(segment, " ") THEN Lower(UnknownIfEmpty(AfterSpace(segment)))
    ELSE FirstProfileSegment(filepath)

SelectedIn(key) ==
    {i \in DOMAIN lkTrace : /\ lkTrace[i].parser \notin {"", "None"}
                            /\ FirstSegment(lkArchive[i].name) = key}

\* C28: process_leak creates the System of an entry when a parser has been
\* selected for it, before the entry is read or parsed: the Systems are those
\* of the first path segments of the entries a parser was selected for, no
\* others, and a System whose parser-selected entries all failed or yielded
\* no record is in the returned Leak with empty collections.
C28_SystemCreatedAtSelection ==
    /\ {lkSystems[s].key : s \in DOMAIN lkSystems}
            = {FirstSegment(lkArchive[i].name) : i \in
                    {t \in DOMAIN lkTrace : lkTrace[t].parser \notin {"", "None"}}}
    /\ lkOutcome = "returned" =>
          /\ {lkLeak[s].key : s \in DOMAIN lkLeak}
                = {lkSystems[s].key : s \in DOMAIN lkSystems}
          /\ \A s \in DOMAIN lkLeak :
                (\A i \in SelectedIn(lkLeak[s].key) :
                        lkTrace[i].logged # "" \/ lkTrace[i].emitted = <<>>)
                    => Records(lkLeak[s]) = {}

\* C28, witness: a Leak returned for two entries, the first with a parser
\* whose read or parse raised, the second of another directory with no
\* parser: one System, that of the first entry, with empty collections
C28_Witness ==
    /\ lkOutcome = "returned"
    /\ Len(lkArchive) = 2
    /\ Len(lkTrace) = 2
    /\ lkTrace[1].parser \notin {"", "None"}
    /\ lkTrace[1].logged \in {"read", "parse"}
    /\ lkTrace[2].parser = "None"
    /\ FirstSegment(lkArchive[1].name) # FirstSegment(lkArchive[2].name)
    /\ Len(lkLeak) = 1
    /\ lkLeak[1].key = FirstSegment(lkArchive[1].name)
    /\ Records(lkLeak[1]) = {}

\* ------------------------------------------------------------------------
\* cli/credential_cookie_cli.py: _write_netscape_cookie_jar, and
\* CookieParser.parse of the file it writes
\* ------------------------------------------------------------------------
MaxJarCookies == 2

\* "value or default" for a string or None
OrElse(value, default) == IF value \in {None, ""} THEN default ELSE value

\* _format_boolean for a value that is a string or None: str(None) is
\* "None", which is none of the four words
_format_boolean(value) ==
    IF Strip(Lower(value)) \in {"true", "1", "yes", "on"} THEN "TRUE" ELSE "FALSE"

Digits == {"0", "1", "2", "3", "4", "5", "6", "7", "8", "9"}

\* int(s) does not raise: blanks around an optional sign and digits (the
\* texts of the model hold no "_" and no digits outside ASCII)
IsIntText(s) ==
    LET body == Strip(s)
        digits == IF body # "" /\ Char(body, 1) \in {"+", "-"}
                  THEN SubSeq(body, 2, Len(body)) ELSE body
    IN digits # "" /\ \A i \in 1..Len(digits) : Char(digits, i) \in Digits

\* _format_expiry
_format_expiry(expiry) ==
    IF expiry \in {None, "", "0"} THEN "0"
    ELSE IF IsIntText(expiry) THEN expiry
    ELSE "0"

\* the line written for one cookie, with its line end
CookieLine(cookie) ==
    OrElse(cookie.domain, "") \o "\t" \o _format_boolean(cookie.domain_specified)
        \o "\t" \o OrElse(cookie.path, "/") \o "\t" \o _format_boolean(cookie.secure)
        \o "\t" \o _format_expiry(cookie.expiry) \o "\t" \o OrElse(cookie.name, "")
        \o "\t" \o OrElse(cookie.value, "") \o "\n"

\* the ten lines written before the cookies
JarHeader(match) ==
    "# Netscape HTTP Cookie File\n"
        \o "# Extracted from system: " \o match.computer_name
        \o " (" \o match.ip_address \o ")\n"
        \o "# Machine ID: " \o match.machine_id \o "\n"
        \o "# Hardware ID: " \o match.hardware_id \o "\n"
        \o "# User: " \o match.machine_user \o "\n"
        \o "# Credential: " \o match.username \o " @ " \o match.host \o "\n"
        \o "# Password: " \o match.password \o "\n"
        \o "# Software: " \o match.software \o "\n"
        \o "# This is a generated file!  Do not edit.\n"
        \o "\n"

\* _write_netscape_cookie_jar: the text of the file
_write_netscape_cookie_jar(match) ==
    JarHeader(match)
        \o Join([i \in DOMAIN match.cookies |-> CookieLine(match.cookies[i])], "")

\* text.splitlines() for a text whose line ends are "\n"
splitlines(text) ==
    IF text = "" THEN <<>>
    ELSE IF Char(text, Len(text)) = "\n"
    THEN Split(SubSeq(text, 1, Len(text) - 1), "\n")
    ELSE Split(text, "\n")

JarCookie(domain, domain_specified, path, secure, expiry, name, value) ==
    [domain |-> domain, domain_specified |-> domain_specified, path |-> path,
     secure |-> secure, expiry |-> expiry, name |-> name, value |-> value]

\* a cookie as CookieParser.parse gives it for a line of a cookie file, and
\* cookies that differ from it in one field
JarCookies ==
    {JarCookie(".example.com", "TRUE", "/", "FALSE", "1700000000", "sid", value) :
        value \in {"abc", "", "a b", "a\tb", "a\nb"}}
    \cup {JarCookie(".example.com", "TRUE", path, "FALSE", "1700000000", "sid", "abc") :
        path \in {"", "/app"}}
    \cup {JarCookie(".example.com", flag, "/", flag, "1700000000", "sid", "abc") :
        flag \in {"true", "1", "FALSE", "0"}}
    \cup {JarCookie(".example.com", "TRUE", "/", "FALSE", expiry, "sid", "abc") :
        expiry \in {"0", "", "-1", "Session", "1700000000.5"}}
    \cup {JarCookie(domain, "TRUE", "/", "FALSE", "1700000000", "sid", "abc") :
        domain \in {"", "#HttpOnly_.example.com"}}

\* the match of a credential of one system with its cookies; the password
\* is the only field that varies
JarMatch(password, cookies) ==
    [computer_name |-> "PC", ip_address |-> "10.0.0.1", machine_id |-> "m1",
     hardware_id |-> "h1", machine_user |-> "alice", username |-> "alice",
     host |-> "example.com", password |-> password, software |-> "Chrome",
     cookies |-> cookies]

JarInit ==
    /\ jrMatch \in {JarMatch(password, cookies) :
                        password \in {"secret", "two words"},
                        cookies \in UNION {[1..n -> JarCookies] : n \in 0..MaxJarCookies}}
    /\ jrText = NotWritten
    /\ jrParsed = NotWritten

WriteJar ==
    /\ jrText = NotWritten
    /\ jrText' = [written |-> TRUE, text |-> _write_netscape_cookie_jar(jrMatch)]
    /\ UNCHANGED <<jrMatch, jrParsed, scoreVars, factoryVars, selectVars, cookieVars, leakVars, truncateVars, vaultVars, configurableVars, exportVars, strategyVars, daoVars, workerVars>>

ParseJar ==
    /\ jrText # NotWritten
    /\ jrParsed = NotWritten
    /\ jrParsed' = [written |-> TRUE,
                    cookies |-> CookieParser_parse(splitlines(jrText.text),
                                                   "unknown", "unknown", "unknown")]
    /\ UNCHANGED <<jrMatch, jrText, scoreVars, factoryVars, selectVars, cookieVars, leakVars, truncateVars, vaultVars, configurableVars, exportVars, strategyVars, daoVars, workerVars>>

JarNext == WriteJar \/ ParseJar

InitJar == JarInit /\ ScoreIdle /\ FactoryIdle /\ SelectIdle /\ CookieIdle /\ LeakIdle /\ TruncateIdle /\ VaultIdle /\ ConfigurableIdle /\ ExportIdle /\ StrategyIdle /\ DaoIdle /\ WorkerIdle

SpecJar == InitJar /\ [][JarNext]_vars

\* ------------------------------------------------------------------------
\* Claims about the cookie jar
\* ------------------------------------------------------------------------
\* the seven fields of a cookie
JarFields(cookie) ==
    <<cookie.domain, cookie.domain_specified, cookie.path, cookie.secure,
      cookie.expiry, cookie.name, cookie.value>>

FieldsOfAll(cookies) == {JarFields(cookies[i]) : i \in DOMAIN cookies}

\* C21: the cookies CookieParser.parse gives for the text that
\* _write_netscape_cookie_jar wrote are the cookies written: the same seven
\* field values for each, none lost and none added.
C21_JarRoundTrip ==
    jrParsed # NotWritten =>
        FieldsOfAll(jrParsed.cookies) = FieldsOfAll(jrMatch.cookies)

\* ------------------------------------------------------------------------
\* database/dao/base.py: BaseDAO._execute_query and BaseDAO._execute_values
\* as steps of one call.  execute_values is imported at the top of the
\* module, so "if not execute_values" is false in every call.
\* ------------------------------------------------------------------------
\* the call at its first line: own_conn = False, conn the argument
Started(conn) ==
    [pc |-> "getconn", conn |-> conn, own_conn |-> FALSE, leaving |-> "",
     getconn |-> 0, commit |-> 0, rollback |-> 0, logged |-> FALSE, putconn |-> 0]

\* "if conn is None: conn = self.db_pool.getconn(); own_conn = True"
AfterGetConn(run, raises) ==
    IF run.conn # None THEN [run EXCEPT !.pc = "cursor"]
    ELSE IF raises THEN [run EXCEPT !.pc = "except"]
    ELSE [run EXCEPT !.pc = "cursor", !.conn = "pooled", !.own_conn = TRUE,
                     !.getconn = @ + 1]

\* "if own_conn: conn.commit()"
AfterOwnCommit(run, raises) ==
    IF ~run.own_conn THEN [run EXCEPT !.pc = "return"]
    ELSE [run EXCEPT !.pc = IF raises THEN "except" ELSE "return", !.commit = @ + 1]

\* the except clause: "if conn and own_conn: conn.rollback()", the log line
\* and "raise"; an exception of rollback() leaves the clause as well
AfterExcept(run, rollback_raises) ==
    IF run.conn # None /\ run.own_conn
    THEN [run EXCEPT !.pc = "finally", !.leaving = "raise", !.rollback = @ + 1,
                     !.logged = ~rollback_raises]
    ELSE [run EXCEPT !.pc = "finally", !.leaving = "raise", !.logged = TRUE]

\* the finally clause without the test of own_conn
AfterFinally_any_conn(run) ==
    IF run.conn # None
    THEN [run EXCEPT !.pc = "done", !.putconn = @ + 1]
    ELSE [run EXCEPT !.pc = "done"]

\* the finally clause: "if conn and own_conn: self.db_pool.putconn(conn)"
AfterFinally(run) ==
    IF run.conn # None /\ run.own_conn
    THEN [run EXCEPT !.pc = "done", !.putconn = @ + 1]
    ELSE [run EXCEPT !.pc = "done"]

\* what can raise in a call: nothing, getconn(), conn.cursor(), the
\* statement, commit(), and fetchone() or fetchall()
DaoFaults(op, fetch) ==
    {"none", "getconn", "cursor", "execute", "commit"}
        \cup (IF op = "_execute_query" /\ fetch # None THEN {"fetch"} ELSE {})

DaoCalls ==
    {[op |-> "_execute_query", conn |-> conn, fetch |-> fetch, fault |-> fault,
      rollback_raises |-> rb] :
        conn \in {None, "supplied"}, fetch \in {None, "one", "all"},
        fault \in {"none", "getconn", "cursor", "execute", "commit", "fetch"},
        rb \in BOOLEAN}
    \cup {[op |-> "_execute_values", conn |-> conn, fetch |-> None, fault |-> fault,
           rollback_raises |-> rb] :
        conn \in {None, "supplied"},
        fault \in {"none", "getconn", "cursor", "execute", "commit"},
        rb \in BOOLEAN}

DaoInit ==
    /\ daoCall \in {call \in DaoCalls : call.fault \in DaoFaults(call.op, call.fetch)}
    /\ daoRun = Started(daoCall.conn)

DaoUnchanged == UNCHANGED <<daoCall, scoreVars, factoryVars, selectVars, cookieVars, leakVars, truncateVars, vaultVars, configurableVars, exportVars, strategyVars, jarVars, workerVars>>

GetConn ==
    /\ daoRun.pc = "getconn"
    /\ daoRun' = AfterGetConn(daoRun, daoCall.fault = "getconn")
    /\ DaoUnchanged

\* "with conn.cursor() as cursor:"
OpenCursor ==
    /\ daoRun.pc = "cursor"
    /\ daoRun' = [daoRun EXCEPT !.pc = IF daoCall.fault = "cursor" THEN "except"
                                       ELSE "execute"]
    /\ DaoUnchanged

\* cursor.execute(query, params) or execute_values(cursor, query, data)
RunStatement ==
    /\ daoRun.pc = "execute"
    /\ daoRun' = [daoRun EXCEPT !.pc = IF daoCall.fault = "execute" THEN "except"
                                       ELSE "commit"]
    /\ DaoUnchanged

CommitOwn ==
    /\ daoRun.pc = "commit"
    /\ daoRun' = AfterOwnCommit(daoRun, daoCall.fault = "commit")
    /\ DaoUnchanged

\* the return statements: fetchone(), fetchall() or rowcount
ReturnResult ==
    /\ daoRun.pc = "return"
    /\ daoRun' = IF daoCall.fault = "fetch" THEN [daoRun EXCEPT !.pc = "except"]
                 ELSE [daoRun EXCEPT !.pc = "finally", !.leaving = "return"]
    /\ DaoUnchanged

HandleException ==
    /\ daoRun.pc = "except"
    /\ daoRun' = AfterExcept(daoRun, daoCall.rollback_raises)
    /\ DaoUnchanged

Finally ==
    /\ daoRun.pc = "finally"
    /\ daoRun' = AfterFinally(daoRun)
    /\ DaoUnchanged

DaoNext ==
    \/ GetConn \/ OpenCursor \/ RunStatement \/ CommitOwn \/ ReturnResult
    \/ HandleException \/ Finally

InitDao == DaoInit /\ ScoreIdle /\ FactoryIdle /\ SelectIdle /\ CookieIdle /\ LeakIdle /\ TruncateIdle /\ VaultIdle /\ ConfigurableIdle /\ ExportIdle /\ StrategyIdle /\ JarIdle /\ WorkerIdle

SpecDao == InitDao /\ [][DaoNext]_vars

\* ------------------------------------------------------------------------
\* Claims about BaseDAO
\* ------------------------------------------------------------------------
\* C29: a connection the call took from the pool is put back exactly once
\* when the call is left, after one commit and no rollback when the call
\* returns and after one rollback when it raises, and never put back
\* before; a connection the caller supplied is never committed, rolled
\* back or put back, and no connection is taken from the pool for it.
C29_OwnConnectionReturnedOnce ==
    /\ daoRun.putconn <= daoRun.getconn
    /\ daoRun.getconn <= 1
    /\ daoRun.getconn = 1 =>
          /\ daoRun.pc = "done" <=> daoRun.putconn = 1
          /\ (daoRun.pc = "done" /\ daoRun.leaving = "return")
                => daoRun.commit = 1 /\ daoRun.rollback = 0
          /\ (daoRun.pc = "done" /\ daoRun.leaving = "raise") => daoRun.rollback = 1
    /\ daoCall.conn = "supplied" =>
          /\ daoRun.getconn = 0
          /\ daoRun.commit = 0
          /\ daoRun.rollback = 0
          /\ daoRun.putconn = 0

\* C29, witness: a call without a connection whose statement raised: one
\* connection taken, rolled back, not committed, put back once
C29_Witness ==
    /\ daoCall.conn = None
    /\ daoCall.fault = "execute"
    /\ daoRun.pc = "done"
    /\ daoRun.leaving = "raise"
    /\ daoRun.getconn = 1
    /\ daoRun.rollback = 1
    /\ daoRun.commit = 0
    /\ daoRun.putconn = 1

\* ------------------------------------------------------------------------
\* api/async_processor.py: BackgroundWorker.start_worker and
\* AsyncStealerProcessor.process_archive_async
\* ------------------------------------------------------------------------
MaxJobs == 2

Jobs == 1..MaxJobs

\* where the try block of process_archive_async is left: at its end, by an
\* exception of the first status update in Redis, of the first update of
\* the session in the database, or of reading, processing and storing the
\* archive, or by the cancellation of the task while it awaits
ProcessFaults == {"none", "redis", "db", "archive", "cancelled"}

\* the try block, lines 87-161
AfterTry(status, db, job, fault) ==
    CASE fault = "none" ->
            [status |-> [status EXCEPT ![job] = "completed"],
             db |-> [db EXCEPT ![job] = "completed"]]
      [] fault = "redis" -> [status |-> status, db |-> db]
      [] fault = "db" -> [status |-> [status EXCEPT ![job] = "processing"], db |-> db]
      [] OTHER ->
            [status |-> [status EXCEPT ![job] = "processing"],
             db |-> [db EXCEPT ![job] = "processing"]]

\* the except clause, lines 163-181: update_session_status(failed), then
\* _update_job_status(failed), then raise; an exception of the first
\* update leaves the clause before the second
AfterHandler(tried, job, db_raises, redis_raises) ==
    IF db_raises THEN tried
    ELSE IF redis_raises
    THEN [status |-> tried.status, db |-> [tried.db EXCEPT ![job] = "failed"]]
    ELSE [status |-> [tried.status EXCEPT ![job] = "failed"],
          db |-> [tried.db EXCEPT ![job] = "failed"]]

\* process_archive_async: the two stores behind it and how it is left; the
\* except clause takes an Exception, not the CancelledError
process_archive_async(status, db, job, fault, db_raises, redis_raises) ==
    IF fault \in {"none", "cancelled"}
    THEN [stores |-> AfterTry(status, db, job, fault),
          leaving |-> IF fault = "none" THEN "return" ELSE "cancelled"]
    ELSE [stores |-> AfterHandler(AfterTry(status, db, job, fault), job,
                                  db_raises, redis_raises),
          leaving |-> "raise"]

WorkerInit ==
    /\ wkQueue = <<>>
    /\ wkStatus = [j \in Jobs |-> "none"]
    /\ wkDb = [j \in Jobs |-> "none"]
    /\ wkFiles = {}
    /\ wkRuns = [j \in Jobs |-> 0]
    /\ wkRaised = {}
    /\ wkPc = "pop"
    /\ wkRunning = TRUE

WorkerOthers == UNCHANGED <<scoreVars, factoryVars, selectVars, cookieVars, leakVars, truncateVars, vaultVars, configurableVars, exportVars, strategyVars, jarVars, daoVars>>

\* the upload of an archive and queue_processing_job for it: the session
\* and the temporary file exist, the job is pushed and its status set
QueueJob(job) ==
    /\ wkStatus[job] = "none"
    /\ wkQueue' = <<job>> \o wkQueue
    /\ wkStatus' = [wkStatus EXCEPT ![job] = "queued"]
    /\ wkDb' = [wkDb EXCEPT ![job] = "uploaded"]
    /\ wkFiles' = wkFiles \cup {job}
    /\ UNCHANGED <<wkRuns, wkRaised, wkPc, wkRunning>>
    /\ WorkerOthers

\* the state after process_archive_async for the job popped; the finally
\* clause has removed the file
Processed(job, done) ==
    /\ wkStatus' = done.stores.status
    /\ wkDb' = done.stores.db
    /\ wkFiles' = wkFiles \ {job}
    /\ wkRuns' = [wkRuns EXCEPT ![job] = @ + 1]
    /\ wkRaised' = IF done.leaving = "raise" THEN wkRaised \cup {job} ELSE wkRaised
    /\ wkPc' = CASE done.leaving = "return" -> "pop"
                 [] done.leaving = "raise" -> "sleep"
                 [] OTHER -> "cancelled"

\* one turn of "while self.running" in which brpop gives a job
ProcessJob ==
    /\ wkPc = "pop"
    /\ wkRunning
    /\ wkQueue # <<>>
    /\ wkQueue' = SubSeq(wkQueue, 1, Len(wkQueue) - 1)
    /\ \E fault \in ProcessFaults, db_raises \in BOOLEAN, redis_raises \in BOOLEAN :
            Processed(wkQueue[Len(wkQueue)],
                      process_archive_async(wkStatus, wkDb, wkQueue[Len(wkQueue)],
                                            fault, db_raises, redis_raises))
    /\ UNCHANGED wkRunning
    /\ WorkerOthers

\* one turn in which brpop raises
PopRaises ==
    /\ wkPc = "pop"
    /\ wkRunning
    /\ wkPc' = "sleep"
    /\ UNCHANGED <<wkQueue, wkStatus, wkDb, wkFiles, wkRuns, wkRaised, wkRunning>>
    /\ WorkerOthers

\* "await asyncio.sleep(5)" of the except clause is over
Slept ==
    /\ wkPc = "sleep"
    /\ wkPc' = "pop"
    /\ UNCHANGED <<wkQueue, wkStatus, wkDb, wkFiles, wkRuns, wkRaised, wkRunning>>
    /\ WorkerOthers

\* stop_worker
StopWorker ==
    /\ wkRunning
    /\ wkRunning' = FALSE
    /\ UNCHANGED <<wkQueue, wkStatus, wkDb, wkFiles, wkRuns, wkRaised, wkPc>>
    /\ WorkerOthers

\* "while self.running" with running False
LeaveLoop ==
    /\ wkPc = "pop"
    /\ ~wkRunning
    /\ wkPc' = "stopped"
    /\ UNCHANGED <<wkQueue, wkStatus, wkDb, wkFiles, wkRuns, wkRaised, wkRunning>>
    /\ WorkerOthers

WorkerNext ==
    \/ \E job \in Jobs : QueueJob(job)
    \/ ProcessJob
    \/ PopRaises
    \/ Slept
    \/ StopWorker
    \/ LeaveLoop

InitWorker == WorkerInit /\ ScoreIdle /\ FactoryIdle /\ SelectIdle /\ CookieIdle /\ LeakIdle /\ TruncateIdle /\ VaultIdle /\ ConfigurableIdle /\ ExportIdle /\ StrategyIdle /\ JarIdle /\ DaoIdle

SpecWorker == InitWorker /\ [][WorkerNext]_vars

\* the pauses end and the loop is left when running is False; of the turns
\* with a job on the queue not all end with brpop raising
SpecWorkerFair ==
    SpecWorker /\ SF_vars(ProcessJob) /\ WF_vars(Slept) /\ WF_vars(LeaveLoop)

\* ------------------------------------------------------------------------
\* Claims about the background worker
\* ------------------------------------------------------------------------
InQueue(job) == \E i \in DOMAIN wkQueue : wkQueue[i] = job

\* a job is processed at most once and is never on the queue again; the
\* file of a job whose processing raised is deleted and the loop has not
\* ended unless the worker was stopped
FailedJobLeft ==
    \A job \in Jobs :
        /\ wkRuns[job] <= 1
        /\ wkRuns[job] = 1 => ~InQueue(job)
        /\ job \in wkRaised =>
              /\ job \notin wkFiles
              /\ wkPc = "stopped" => ~wkRunning

\* the status of a job whose processing raised is failed
FailedJobMarked == \A job \in wkRaised : wkStatus[job] = "failed"

\* after a pause the worker pops the jobs that are on the queue, unless it
\* is stopped or cancelled
LaterJobsPopped ==
    \A job \in Jobs :
        (wkRaised # {} /\ InQueue(job)) ~> (~InQueue(job) \/ wkPc = "cancelled" \/ ~wkRunning)

\* C30: every job popped is processed at most once; when processing it
\* raises, its status is set to failed, its temporary file is deleted, it is
\* not put back on the queue, and the loop goes on after a pause and pops
\* the later jobs.
C30_FailedJobsAreMarkedAndSkipped ==
    /\ [](FailedJobLeft /\ FailedJobMarked)
    /\ LaterJobsPopped

====
